---- MODULE Spec2Model ----
(***************************************************************************)
(* Pump diagnostic expert system (src/app.py): the three rule-based domain *)
(* diagnosers, the temperature confidence adjuster and the cross-domain    *)
(* aggregator.                                                             *)
(*                                                                         *)
(* Units.  The program computes on Python floats; the model computes on    *)
(* integers and exact fractions:                                           *)
(*   overall velocity      0.1 mm/s   (4.5 mm/s = 45, 7.1 mm/s = 71)       *)
(*   band acceleration     0.001 g    (baseline 0.3 g = 300)               *)
(*   bearing temperature   1 degree C (the widgets are integer)            *)
(*   FFT frequency         0.1 Hz,  FFT amplitude 0.01 mm/s                *)
(*   voltages, currents    1 V, 1 A                                        *)
(*   percentages           exact fractions [n, d], d > 0                   *)
(***************************************************************************)
EXTENDS Integers, Sequences, FiniteSets, TLC

VARIABLES
    mech_result,            \* DiagnosisResult of the mechanical domain, or Absent
    hyd_result,             \* DiagnosisResult of the hydraulic domain, or Absent
    elec_result,            \* DiagnosisResult of the electrical domain, or Absent
    temp_data,              \* bearing temperature set handed to the aggregator
    integrated_result,      \* IntegratedDiagnosisResult, or Absent
    vel_data,               \* point -> overall velocity, as handed to the mechanical diagnoser
    bands_data,             \* point -> band accelerations
    fft_champ_data,         \* FFT peaks <<frequency, amplitude>> of the champion point
    rpm,                    \* operating RPM of the shared context
    b_idx,                  \* bearing loop: number of points processed so far
    bearing,                \* bearing loop: worst_bearing_severity and bearing_diag
    elec_in,                \* electrical measurement and motor nameplate
    elec_calc,              \* result of calculate_electrical_parameters, or Absent
    hyd_in,                 \* hydraulic measurement, design data and observations
    hyd_calc,               \* result of calculate_hydraulic_parameters, or Absent
    mech_data,              \* session summary of the mechanical analysis, or Absent
    hyd_data,               \* session summary of the hydraulic analysis, or Absent
    elec_data,              \* session summary of the electrical analysis, or Absent
    csv_report,             \* lines of the generated report, or Absent
    adj_consistent,         \* argument of the temperature adjuster, or Absent
    temp_adjustment,        \* what the temperature adjuster returned, or Absent
    fft_amps                \* the 1x and 2x RPM amplitudes read from the peaks, or Absent

vars == <<mech_result, hyd_result, elec_result, temp_data, integrated_result,
          vel_data, bands_data, fft_champ_data, rpm, b_idx, bearing,
          elec_in, elec_calc, hyd_in, hyd_calc,
          mech_data, hyd_data, elec_data, csv_report,
          adj_consistent, temp_adjustment, fft_amps>>
mechInputs == <<vel_data, bands_data, fft_champ_data, rpm>>
bearingVars == <<b_idx, bearing>>
elecVars == <<elec_in, elec_calc>>
hydVars == <<hyd_in, hyd_calc>>
reportVars == <<mech_data, hyd_data, elec_data, csv_report>>
adjVars == <<adj_consistent, temp_adjustment>>

Absent == [absent |-> TRUE]

(***************************************************************************)
(* Generic helpers                                                         *)
(***************************************************************************)
Min(a, b) == IF a <= b THEN a ELSE b
Max(a, b) == IF a >= b THEN a ELSE b
Abs(a) == IF a >= 0 THEN a ELSE -a

\* Python int() of the fraction n/d (d > 0): truncation toward zero.
IntTrunc(n, d) == IF n >= 0 THEN n \div d ELSE -((-n) \div d)

\* An exact fraction n/d with d > 0.
Frac(n, d) == [n |-> n, d |-> d]
FLt(a, b) == a.n * b.d < b.n * a.d
FGt(a, b) == a.n * b.d > b.n * a.d
FInt(k) == Frac(k, 1)
FLe(a, b) == a.n * b.d <= b.n * a.d

\* Exact rational arithmetic on fractions, results in lowest terms.
RECURSIVE Gcd(_, _)
Gcd(a, b) == IF b = 0 THEN a ELSE Gcd(b, a % b)

FNorm(n, d) ==
    LET g == Gcd(Abs(n), d)
    IN Frac(n \div g, d \div g)

FMul(a, b) ==
    LET x == FNorm(a.n, b.d)
        y == FNorm(b.n, a.d)
    IN Frac(x.n * y.n, x.d * y.d)

FAdd(a, b) == FNorm(a.n * b.d + b.n * a.d, a.d * b.d)
FSub(a, b) == FNorm(a.n * b.d - b.n * a.d, a.d * b.d)
FNeg(a) == Frac(-a.n, a.d)
FAbs(a) == Frac(Abs(a.n), a.d)

\* a / b for b # 0
FDiv(a, b) ==
    IF b.n > 0 THEN FMul(a, Frac(b.d, b.n)) ELSE FMul(FNeg(a), Frac(b.d, -b.n))

\* Python int() of a fraction
FTrunc(a) == IntTrunc(a.n, a.d)

(***************************************************************************)
(* ThresholdConfig                                                         *)
(***************************************************************************)
normal_max == 70
elevated_max == 80
warning_max == 90
critical_min == 90
delta_threshold == 15

TempLocs == {"Pump_DE", "Pump_NDE", "Motor_DE", "Motor_NDE"}
\* insertion order of the temperature dict
TempOrder == <<"Pump_DE", "Pump_NDE", "Motor_DE", "Motor_NDE">>

Severities == {"Low", "Medium", "High"}
SevRank(s) == CASE s = "Low" -> 0 [] s = "Medium" -> 1 [] s = "High" -> 2

(***************************************************************************)
(* Bearing temperature set: [given |-> FALSE] is Python None, otherwise a   *)
(* dict d over the keys that are present.                                  *)
(***************************************************************************)
NoTemp == [given |-> FALSE, d |-> <<>>]
TempDict(d) == [given |-> TRUE, d |-> d]

\* `if temp_data:` - None and the empty dict are falsy
Truthy(td) == td.given /\ DOMAIN td.d # {}
\* as TempPresent, a reading of 0 taken as a measured temperature
TempPresentZeroMeasured(d, k) == k \in DOMAIN d

\* `d.get(k)` used as a condition: a missing key (None) and 0 are falsy
TempPresent(d, k) == k \in DOMAIN d /\ d[k] # 0

get_temperature_status(temp_celsius) ==
    IF temp_celsius = 0 THEN "N/A"
    ELSE IF temp_celsius < normal_max THEN "Normal"
    ELSE IF temp_celsius < elevated_max THEN "Elevated"
    ELSE IF temp_celsius < warning_max THEN "Warning"
    ELSE "Critical"

Note(kind, loc) == [kind |-> kind, loc |-> loc]

\* as BucketDelta, with an Elevated reading penalised when inconsistent
BucketDeltaElevatedPenalty(status, diagnosis_consistent) ==
    CASE status = "Critical" -> IF diagnosis_consistent THEN 20 ELSE -10
      [] status = "Warning"  -> IF diagnosis_consistent THEN 15 ELSE -5
      [] status = "Elevated" -> IF diagnosis_consistent THEN 10 ELSE -5
      [] OTHER -> 0

\* the per-location delta of the adjuster's loop body
BucketDelta(status, diagnosis_consistent) ==
    CASE status = "Critical" -> IF diagnosis_consistent THEN 20 ELSE -10
      [] status = "Warning"  -> IF diagnosis_consistent THEN 15 ELSE -5
      [] status = "Elevated" -> IF diagnosis_consistent THEN 10 ELSE 0
      [] OTHER -> 0

BucketNote(status, diagnosis_consistent, loc) ==
    CASE status = "Critical" ->
            <<Note(IF diagnosis_consistent THEN "Critical - Strong thermal confirmation"
                   ELSE "Critical - Review required", loc)>>
      [] status = "Warning" ->
            <<Note(IF diagnosis_consistent THEN "Warning - Thermal confirmation"
                   ELSE "Warning - Monitor closely", loc)>>
      [] status = "Elevated" ->
            <<Note(IF diagnosis_consistent THEN "Elevated - Early thermal indication"
                   ELSE "Elevated - Monitor trend", loc)>>
      [] OTHER -> <<>>

\* for location, temp in temp_dict.items(): the loop from position i on
RECURSIVE TempLoop(_, _, _, _)
TempLoop(i, d, diagnosis_consistent, acc) ==
    IF i > Len(TempOrder) THEN acc
    ELSE LET loc == TempOrder[i] IN
         IF ~TempPresent(d, loc)
         THEN TempLoop(i + 1, d, diagnosis_consistent, acc)
         ELSE LET status == get_temperature_status(d[loc]) IN
              TempLoop(i + 1, d, diagnosis_consistent,
                       [adjustment |-> acc.adjustment
                                        + BucketDelta(status, diagnosis_consistent),
                        notes |-> acc.notes
                                   \o BucketNote(status, diagnosis_consistent, loc)])

DeltaExceeds(d, a, b) ==
    TempPresent(d, a) /\ TempPresent(d, b) /\ Abs(d[a] - d[b]) > delta_threshold

MotorHotter(d) ==
    TempPresent(d, "Motor_DE") /\ TempPresent(d, "Pump_DE")
    /\ d["Motor_DE"] > d["Pump_DE"] + 10

calculate_temperature_confidence_adjustment(d, diagnosis_consistent) ==
    LET loop == TempLoop(1, d, diagnosis_consistent, [adjustment |-> 0, notes |-> <<>>])
        dp == DeltaExceeds(d, "Pump_DE", "Pump_NDE")
        dm == DeltaExceeds(d, "Motor_DE", "Motor_NDE")
        adjustment == loop.adjustment + (IF dp THEN 5 ELSE 0) + (IF dm THEN 5 ELSE 0)
        notes == loop.notes
                 \o (IF dp THEN <<Note("Pump DE-NDE dT - Localized fault indicated", "")>>
                     ELSE <<>>)
                 \o (IF dm THEN <<Note("Motor DE-NDE dT - Localized fault indicated", "")>>
                     ELSE <<>>)
                 \o (IF MotorHotter(d)
                     THEN <<Note("Motor DE > Pump DE - Possible electrical origin", "")>>
                     ELSE <<>>)
    IN [adjustment |-> Min(20, Max(-10, adjustment)), notes |-> notes]

(***************************************************************************)
(* Cross-domain aggregator                                                 *)
(***************************************************************************)
NoCorrelationLabel == "Tidak Ada Korelasi Antar Domain Terdeteksi"
NoCorrelationNote == "Tidak ada korelasi kuat antar domain terdeteksi"
OverrideNote == "Critical bearing temperature detected"

\* as Rule1, matching on any electrical fault instead of a voltage fault
Rule1AnyElectricalFault(mech, hyd, elec) ==
    /\ elec.fault_type # "normal"
    /\ mech.diagnosis \in {"MISALIGNMENT", "LOOSENESS"}
    /\ FLt(hyd.head_dev, FInt(-5))

Rule1(mech, hyd, elec) ==
    /\ elec.fault_type = "voltage"
    /\ mech.diagnosis \in {"MISALIGNMENT", "LOOSENESS"}
    /\ FLt(hyd.head_dev, FInt(-5))

\* as Rule2, without the condition on the mechanical fault_type
Rule2WithoutMechanical(mech, hyd, elec) ==
    /\ hyd.fault_type = "cavitation"
    /\ FGt(elec.current_unbalance, FInt(5))

Rule2(mech, hyd, elec) ==
    /\ hyd.fault_type = "cavitation"
    /\ mech.fault_type = "wear"
    /\ FGt(elec.current_unbalance, FInt(5))

Rule3(mech, hyd, elec) ==
    /\ elec.diagnosis = "OVER_LOAD"
    /\ hyd.fault_type = "efficiency"

RuleBonus(mech, hyd, elec) ==
    (IF Rule1(mech, hyd, elec) THEN 15 ELSE 0)
    + (IF Rule2(mech, hyd, elec) THEN 20 ELSE 0)
    + (IF Rule3(mech, hyd, elec) THEN 10 ELSE 0)

RuleNotes(mech, hyd, elec) ==
    (IF Rule1(mech, hyd, elec)
     THEN <<"Voltage unbalance -> torque pulsation -> hydraulic instability">> ELSE <<>>)
    \o (IF Rule2(mech, hyd, elec)
        THEN <<"Cavitation -> impeller erosion -> unbalance -> current fluctuation">>
        ELSE <<>>)
    \o (IF Rule3(mech, hyd, elec)
        THEN <<"High electrical input + low hydraulic output -> internal loss">>
        ELSE <<>>)

\* as RuleLabel, the first matching rule keeping the label
RuleLabelFirstMatch(mech, hyd, elec) ==
    IF Rule1(mech, hyd, elec) THEN "Electrical-Mechanical-Hydraulic Coupled Fault"
    ELSE IF Rule2(mech, hyd, elec) THEN "Cascading Failure: Cavitation Origin"
    ELSE IF Rule3(mech, hyd, elec) THEN "Internal Loss Investigation Required"
    ELSE NoCorrelationLabel

RuleLabel(mech, hyd, elec) ==
    IF Rule3(mech, hyd, elec) THEN "Internal Loss Investigation Required"
    ELSE IF Rule2(mech, hyd, elec) THEN "Cascading Failure: Cavitation Origin"
    ELSE IF Rule1(mech, hyd, elec) THEN "Electrical-Mechanical-Hydraulic Coupled Fault"
    ELSE NoCorrelationLabel

\* as AggTempNotes, without the pump DE-NDE note
AggTempNotesNoDelta(td) ==
    IF ~Truthy(td) THEN <<>>
    ELSE IF MotorHotter(td.d)
         THEN <<"Motor DE > Pump DE -> Possible electrical origin">> ELSE <<>>

\* the correlation notes the temperature block appends
AggTempNotes(td) ==
    IF ~Truthy(td) THEN <<>>
    ELSE (IF DeltaExceeds(td.d, "Pump_DE", "Pump_NDE")
          THEN <<"Pump DE-NDE dT >15C -> Localized fault on DE bearing">> ELSE <<>>)
         \o (IF MotorHotter(td.d)
             THEN <<"Motor DE > Pump DE -> Possible electrical origin">> ELSE <<>>)

OverallSeverityMedFirst(mech_sev, hyd_sev, elec_sev) ==
    IF "Medium" \in {mech_sev, hyd_sev, elec_sev} THEN "Medium"
    ELSE IF "High" \in {mech_sev, hyd_sev, elec_sev} THEN "High"
    ELSE "Low"

OverallSeverity(mech_sev, hyd_sev, elec_sev) ==
    IF "High" \in {mech_sev, hyd_sev, elec_sev} THEN "High"
    ELSE IF "Medium" \in {mech_sev, hyd_sev, elec_sev} THEN "Medium"
    ELSE "Low"

\* for temp in temp_data.values(): if temp and temp > critical_min
CriticalOverride(td) ==
    Truthy(td) /\ \E k \in DOMAIN td.d : td.d[k] # 0 /\ td.d[k] > critical_min

\* confidences of the domains whose confidence is > 0
PositiveConfidences(mech, hyd, elec) ==
    SelectSeq(<<mech.confidence, hyd.confidence, elec.confidence>>, LAMBDA c : c > 0)

SumSeq(s) == IF Len(s) = 0 THEN 0
             ELSE IF Len(s) = 1 THEN s[1]
             ELSE IF Len(s) = 2 THEN s[1] + s[2]
             ELSE s[1] + s[2] + s[3]

\* min(95, int(np.mean(confidences) + correlation_bonus))
FinalConfidence(mech, hyd, elec, correlation_bonus) ==
    LET confidences == PositiveConfidences(mech, hyd, elec)
        k == Len(confidences)
    IN IF k = 0 THEN Min(95, correlation_bonus)
       ELSE Min(95, IntTrunc(SumSeq(confidences) + k * correlation_bonus, k))

aggregate_cross_domain_diagnosis(mech, hyd, elec, td) ==
    LET consistent == mech.fault_type # "normal"
        tadj == IF Truthy(td)
                THEN calculate_temperature_confidence_adjustment(td.d, consistent)
                ELSE [adjustment |-> 0, notes |-> <<>>]
        correlation_bonus == RuleBonus(mech, hyd, elec) + tadj.adjustment
        override == CriticalOverride(td)
        correlated_faults == RuleNotes(mech, hyd, elec) \o AggTempNotes(td)
                             \o (IF override THEN <<OverrideNote>> ELSE <<>>)
    IN [diagnosis |-> RuleLabel(mech, hyd, elec),
        confidence |-> FinalConfidence(mech, hyd, elec, correlation_bonus),
        severity |-> IF override THEN "High"
                     ELSE OverallSeverity(mech.severity, hyd.severity, elec.severity),
        correlation_notes |-> IF correlated_faults # <<>> THEN correlated_faults
                              ELSE <<NoCorrelationNote>>,
        temperature_notes |-> tadj.notes]

(***************************************************************************)
(* Mechanical diagnoser                                                    *)
(***************************************************************************)
limit_warning == 45
limit_danger == 71
base1 == 300
base2 == 200
base3 == 150

Point(machine, end, direction) ==
    [machine |-> machine, end |-> end, direction |-> direction]

\* the 12 points in the order main() enumerates them and fills the dicts
points ==
    << Point("Pump", "DE", "Horizontal"),   Point("Pump", "DE", "Vertical"),
       Point("Pump", "DE", "Axial"),        Point("Pump", "NDE", "Horizontal"),
       Point("Pump", "NDE", "Vertical"),    Point("Pump", "NDE", "Axial"),
       Point("Motor", "DE", "Horizontal"),  Point("Motor", "DE", "Vertical"),
       Point("Motor", "DE", "Axial"),       Point("Motor", "NDE", "Horizontal"),
       Point("Motor", "NDE", "Vertical"),   Point("Motor", "NDE", "Axial") >>

PointSet == { points[i] : i \in 1..Len(points) }

\* the champion sentinel of a Normal result
NoChampion == Point("Tidak Ada (Normal)", "", "")

\* dict.get(k, 0)
GetOr0(d, k) == IF k \in DOMAIN d THEN d[k] ELSE 0

\* one pass of the bearing loop body over the band record of one point
BearingPoint(st, bands) ==
    LET b1 == bands.Band1
        b2 == bands.Band2
        b3 == bands.Band3
    IN IF 2 * b1 > 5 * base1 /\ 2 * b2 > 3 * base2
       THEN [worst_bearing_severity |-> "High", bearing_diag |-> "BEARING_SEVERE"]
       ELSE IF b2 > 2 * base2 /\ 2 * b3 > 3 * base3
       THEN [worst_bearing_severity |-> IF b2 > 3 * base2 THEN "High" ELSE "Medium",
             bearing_diag |-> "BEARING_DEVELOPED"]
       ELSE IF b3 > 2 * base3
       THEN [worst_bearing_severity |-> IF st.worst_bearing_severity = "Low"
                                        THEN "Medium" ELSE st.worst_bearing_severity,
             bearing_diag |-> "BEARING_EARLY"]
       ELSE st

BearingStart == [worst_bearing_severity |-> "Low", bearing_diag |-> "Normal"]

\* for point, bands in bands_data.items(): the loop from position i on
RECURSIVE BearingLoop(_, _, _)
BearingLoop(i, bmap, st) ==
    IF i > Len(points) THEN st
    ELSE IF points[i] \notin DOMAIN bmap THEN BearingLoop(i + 1, bmap, st)
    ELSE BearingLoop(i + 1, bmap, BearingPoint(st, bmap[points[i]]))

\* max(vel_data, key=vel_data.get) from position i on, best being the key kept
\* so far: a later key replaces it only when its value is strictly greater
RECURSIVE ChampionFrom(_, _, _)
ChampionFrom(i, vel, best) ==
    IF i > Len(points) THEN best
    ELSE IF points[i] \notin DOMAIN vel THEN ChampionFrom(i + 1, vel, best)
    ELSE IF best = NoChampion \/ vel[points[i]] > vel[best]
         THEN ChampionFrom(i + 1, vel, points[i])
         ELSE ChampionFrom(i + 1, vel, best)

\* as ChampionFrom, but a later key also replaces the best on an equal value
RECURSIVE ChampionLastFrom(_, _, _)
ChampionLastFrom(i, vel, best) ==
    IF i > Len(points) THEN best
    ELSE IF points[i] \notin DOMAIN vel THEN ChampionLastFrom(i + 1, vel, best)
    ELSE IF best = NoChampion \/ vel[points[i]] >= vel[best]
         THEN ChampionLastFrom(i + 1, vel, points[i])
         ELSE ChampionLastFrom(i + 1, vel, best)

ChampionLast(vel) == ChampionLastFrom(1, vel, NoChampion)

Champion(vel) == ChampionFrom(1, vel, NoChampion)

\* next((p[1] for p in fft if abs(p[0] - target) < 0.05 * rpm_hz), 0)
RECURSIVE FirstPeakNear(_, _, _, _)
FirstPeakNear(i, fft, target, rpm_hz) ==
    IF i > Len(fft) THEN 0
    ELSE IF 20 * Abs(fft[i][1] - target) < rpm_hz THEN fft[i][2]
    ELSE FirstPeakNear(i + 1, fft, target, rpm_hz)

RECURSIVE SumAmps(_, _)
SumAmps(i, fft) == IF i > Len(fft) THEN 0 ELSE fft[i][2] + SumAmps(i + 1, fft)

\* sum(p[1] for p in fft) if fft else 1, in units of 0.01 mm/s
TotalFft(fft) == IF Len(fft) > 0 THEN SumAmps(1, fft) ELSE 100

HighVerts(vel) ==
    Cardinality({ p \in DOMAIN vel : p.direction = "Vertical"
                                          /\ vel[p] > limit_warning })

\* as LowFreqRules, UNBALANCE needing both the dominant 1x peak and the opposite end
LowFreqRulesBothNeeded(vel, fft, rpm_hz, champ_point) ==
    LET max_vel == vel[champ_point]
        amp_1x == FirstPeakNear(1, fft, rpm_hz, rpm_hz)
        amp_2x == FirstPeakNear(1, fft, 2 * rpm_hz, rpm_hz)
    IN IF champ_point.direction = "Axial" /\ champ_point.end = "DE"
       THEN LET opp_machine == IF champ_point.machine = "Motor" THEN "Pump" ELSE "Motor"
                opp_vel == GetOr0(vel, Point(opp_machine, "DE", "Axial"))
            IN IF 2 * amp_2x > amp_1x \/ opp_vel > limit_warning
               THEN [diag |-> "MISALIGNMENT",
                     conf |-> Min(95, 75 + IntTrunc(10 * opp_vel, limit_warning))]
               ELSE [diag |-> "Tidak Terdiagnosa", conf |-> 40]
       ELSE IF champ_point.direction = "Horizontal"
       THEN LET opp_end == IF champ_point.end = "DE" THEN "NDE" ELSE "DE"
                opp_vel == GetOr0(vel, Point(champ_point.machine, opp_end, "Horizontal"))
            IN IF 10 * amp_1x > 7 * TotalFft(fft) /\ opp_vel > limit_warning
               THEN [diag |-> "UNBALANCE",
                     conf |-> Min(90, 70 + IntTrunc(2 * amp_1x, max_vel))]
               ELSE [diag |-> "Tidak Terdiagnosa", conf |-> 40]
       ELSE IF champ_point.direction = "Vertical"
       THEN LET high_verts == HighVerts(vel)
            IN IF high_verts >= 2 \/ (amp_2x > 10 /\ amp_1x > 10)
               THEN [diag |-> "LOOSENESS", conf |-> Min(90, 60 + high_verts * 10)]
               ELSE [diag |-> "Tidak Terdiagnosa", conf |-> 40]
       ELSE [diag |-> "Tidak Terdiagnosa", conf |-> 40]

\* the low-frequency path for a champion whose velocity exceeds limit_warning
\* int((opp_vel / limit_warning) * 10) on doubles is one below the exact value
\* at opp_vel = 11.7, 18.9, 23.4 and 27.9 mm/s; from 9.0 mm/s on min(95, ...)
\* yields 95 either way, so the confidence is the same
LowFreqRules(vel, fft, rpm_hz, champ_point) ==
    LET max_vel == vel[champ_point]
        amp_1x == FirstPeakNear(1, fft, rpm_hz, rpm_hz)
        amp_2x == FirstPeakNear(1, fft, 2 * rpm_hz, rpm_hz)
    IN IF champ_point.direction = "Axial" /\ champ_point.end = "DE"
       THEN LET opp_machine == IF champ_point.machine = "Motor" THEN "Pump" ELSE "Motor"
                opp_vel == GetOr0(vel, Point(opp_machine, "DE", "Axial"))
            IN IF 2 * amp_2x > amp_1x \/ opp_vel > limit_warning
               THEN [diag |-> "MISALIGNMENT",
                     conf |-> Min(95, 75 + IntTrunc(10 * opp_vel, limit_warning))]
               ELSE [diag |-> "Tidak Terdiagnosa", conf |-> 40]
       ELSE IF champ_point.direction = "Horizontal"
       THEN LET opp_end == IF champ_point.end = "DE" THEN "NDE" ELSE "DE"
                opp_vel == GetOr0(vel, Point(champ_point.machine, opp_end, "Horizontal"))
            IN IF 10 * amp_1x > 7 * TotalFft(fft) \/ opp_vel > limit_warning
               THEN [diag |-> "UNBALANCE",
                     conf |-> Min(90, 70 + IntTrunc(2 * amp_1x, max_vel))]
               ELSE [diag |-> "Tidak Terdiagnosa", conf |-> 40]
       ELSE IF champ_point.direction = "Vertical"
       THEN LET high_verts == HighVerts(vel)
            IN IF high_verts >= 2 \/ (amp_2x > 10 /\ amp_1x > 10)
               THEN [diag |-> "LOOSENESS", conf |-> Min(90, 60 + high_verts * 10)]
               ELSE [diag |-> "Tidak Terdiagnosa", conf |-> 40]
       ELSE [diag |-> "Tidak Terdiagnosa", conf |-> 40]

\* as LowFreqPath, the path active from limit_warning on
LowFreqPathInclusive(vel, fft, rpm_hz, champ_point) ==
    LET max_vel == vel[champ_point]
    IN IF max_vel >= limit_warning
       THEN LET r == LowFreqRules(vel, fft, rpm_hz, champ_point)
            IN [low_freq_diag |-> r.diag, low_freq_conf |-> r.conf,
                low_freq_severity |-> IF max_vel > limit_danger THEN "High" ELSE "Medium"]
       ELSE [low_freq_diag |-> "None", low_freq_conf |-> 0, low_freq_severity |-> "Low"]

LowFreqPath(vel, fft, rpm_hz, champ_point) ==
    LET max_vel == vel[champ_point]
    IN IF max_vel > limit_warning
       THEN LET r == LowFreqRules(vel, fft, rpm_hz, champ_point)
            IN [low_freq_diag |-> r.diag, low_freq_conf |-> r.conf,
                low_freq_severity |-> IF max_vel > limit_danger THEN "High" ELSE "Medium"]
       ELSE [low_freq_diag |-> "None", low_freq_conf |-> 0, low_freq_severity |-> "Low"]

MechRecord(diagnosis, confidence, severity, fault_type, champion_point) ==
    [diagnosis |-> diagnosis, confidence |-> confidence, severity |-> severity,
     fault_type |-> fault_type, champion_point |-> champion_point]

FinalDecisionBearingFirst(lf, bp, champ_point) ==
    IF bp.worst_bearing_severity = "High"
    THEN MechRecord(bp.bearing_diag, 85, "High", "high_freq", champ_point)
    ELSE IF lf.low_freq_severity = "High"
    THEN MechRecord(lf.low_freq_diag, lf.low_freq_conf, "High", "low_freq", champ_point)
    ELSE IF bp.worst_bearing_severity = "Medium"
    THEN MechRecord(bp.bearing_diag, 75, "Medium", "high_freq", champ_point)
    ELSE IF lf.low_freq_severity = "Medium"
    THEN MechRecord(lf.low_freq_diag, lf.low_freq_conf, "Medium", "low_freq", champ_point)
    ELSE MechRecord("Normal", 99, "Low", "normal", NoChampion)

\* as FinalDecision, but the Normal result keeps the champion that was found
FinalDecisionNormalKeepsChampion(lf, bp, champ_point) ==
    IF lf.low_freq_severity = "High"
    THEN MechRecord(lf.low_freq_diag, lf.low_freq_conf, "High", "low_freq", champ_point)
    ELSE IF bp.worst_bearing_severity = "High"
    THEN MechRecord(bp.bearing_diag, 85, "High", "high_freq", champ_point)
    ELSE IF lf.low_freq_severity = "Medium"
    THEN MechRecord(lf.low_freq_diag, lf.low_freq_conf, "Medium", "low_freq", champ_point)
    ELSE IF bp.worst_bearing_severity = "Medium"
    THEN MechRecord(bp.bearing_diag, 75, "Medium", "high_freq", champ_point)
    ELSE MechRecord("Normal", 99, "Low", "normal", champ_point)

\* 3. KEPUTUSAN FINAL
FinalDecision(lf, bp, champ_point) ==
    IF lf.low_freq_severity = "High"
    THEN MechRecord(lf.low_freq_diag, lf.low_freq_conf, "High", "low_freq", champ_point)
    ELSE IF bp.worst_bearing_severity = "High"
    THEN MechRecord(bp.bearing_diag, 85, "High", "high_freq", champ_point)
    ELSE IF lf.low_freq_severity = "Medium"
    THEN MechRecord(lf.low_freq_diag, lf.low_freq_conf, "Medium", "low_freq", champ_point)
    ELSE IF bp.worst_bearing_severity = "Medium"
    THEN MechRecord(bp.bearing_diag, 75, "Medium", "high_freq", champ_point)
    ELSE MechRecord("Normal", 99, "Low", "normal", NoChampion)

\* max() of an empty dict raises ValueError: the call returns no result
MechError(kind) == [error |-> kind]

\* the fifth parameter of the code, temp_data, is never read by the function
diagnose_mechanical_system(vel, bmap, fft, rpm_hz) ==
    IF DOMAIN vel = {} THEN MechError("ValueError")
    ELSE LET bp == BearingLoop(1, bmap, BearingStart)
             champ_point == Champion(vel)
             lf == LowFreqPath(vel, fft, rpm_hz, champ_point)
         IN FinalDecision(lf, bp, champ_point)

(***************************************************************************)
(* Hydraulic domain.  Every quantity is an exact fraction in the unit the  *)
(* code uses (bar, m3/h, kW, m, kPa, %).                                   *)
(***************************************************************************)
calculate_hydraulic_parameters(suction_pressure, discharge_pressure, flow_rate, motor_power, sg) ==
    LET delta_p == FSub(discharge_pressure, suction_pressure)
        head == IF FGt(sg, FInt(0))
                THEN FDiv(FMul(delta_p, Frac(102, 10)), sg)
                ELSE FInt(0)
        hydraulic_power ==
            IF FGt(flow_rate, FInt(0)) /\ FGt(head, FInt(0))
            THEN FDiv(FMul(FMul(FMul(flow_rate, head), sg), Frac(981, 100)), FInt(3600))
            ELSE FInt(0)
        efficiency == IF FGt(motor_power, FInt(0))
                      THEN FMul(FDiv(hydraulic_power, motor_power), FInt(100))
                      ELSE FInt(0)
    IN [delta_p_bar |-> delta_p, head_m |-> head,
        hydraulic_power_kw |-> hydraulic_power, efficiency_percent |-> efficiency]

\* (actual - design) / design * 100, 0 unless design > 0
Deviation(actual, design) ==
    IF FGt(design, FInt(0))
    THEN FMul(FDiv(FSub(actual, design), design), FInt(100))
    ELSE FInt(0)

Deviations(keys, dev_head, dev_eff, dev_flow) ==
    [k \in keys |-> IF k = "head_dev" THEN dev_head
                    ELSE IF k = "eff_dev" THEN dev_eff ELSE dev_flow]

\* deviations.get(k, 0)
DevGet(deviations, k) == IF k \in DOMAIN deviations THEN deviations[k] ELSE FInt(0)

\* as classify_hydraulic_performance, OVER_RESISTANCE from a flow deviation of -5 % on
ClassifyFlowInclusive(head_aktual, head_design, efficiency_aktual, efficiency_bep, flow_aktual, flow_design) ==
    LET dev_head == Deviation(head_aktual, head_design)
        dev_eff == Deviation(efficiency_aktual, efficiency_bep)
        dev_flow == Deviation(flow_aktual, flow_design)
    IN IF FLt(dev_head, FInt(-5)) /\ FLt(dev_eff, FInt(-5))
       THEN [pattern |-> "UNDER_PERFORMANCE",
             deviations |-> Deviations({"head_dev", "eff_dev"}, dev_head, dev_eff, dev_flow)]
       ELSE IF FGt(dev_head, FInt(5)) /\ FLe(dev_flow, FInt(-5))
       THEN [pattern |-> "OVER_RESISTANCE",
             deviations |-> Deviations({"head_dev", "flow_dev"}, dev_head, dev_eff, dev_flow)]
       ELSE IF FLt(dev_eff, FInt(-10)) /\ FLe(FAbs(dev_head), FInt(5))
       THEN [pattern |-> "EFFICIENCY_DROP",
             deviations |-> Deviations({"eff_dev"}, dev_head, dev_eff, dev_flow)]
       ELSE IF /\ FLe(FAbs(dev_head), FInt(5))
               /\ FLe(FAbs(dev_eff), FInt(5))
               /\ FLe(FAbs(dev_flow), FInt(5))
       THEN [pattern |-> "NORMAL",
             deviations |-> Deviations({"head_dev", "eff_dev", "flow_dev"},
                                       dev_head, dev_eff, dev_flow)]
       ELSE [pattern |-> "MIXED_DEVIATION",
             deviations |-> Deviations({"head_dev", "eff_dev", "flow_dev"},
                                       dev_head, dev_eff, dev_flow)]

classify_hydraulic_performance(head_aktual, head_design, efficiency_aktual, efficiency_bep, flow_aktual, flow_design) ==
    LET dev_head == Deviation(head_aktual, head_design)
        dev_eff == Deviation(efficiency_aktual, efficiency_bep)
        dev_flow == Deviation(flow_aktual, flow_design)
    IN IF FLt(dev_head, FInt(-5)) /\ FLt(dev_eff, FInt(-5))
       THEN [pattern |-> "UNDER_PERFORMANCE",
             deviations |-> Deviations({"head_dev", "eff_dev"}, dev_head, dev_eff, dev_flow)]
       ELSE IF FGt(dev_head, FInt(5)) /\ FLt(dev_flow, FInt(-5))
       THEN [pattern |-> "OVER_RESISTANCE",
             deviations |-> Deviations({"head_dev", "flow_dev"}, dev_head, dev_eff, dev_flow)]
       ELSE IF FLt(dev_eff, FInt(-10)) /\ FLe(FAbs(dev_head), FInt(5))
       THEN [pattern |-> "EFFICIENCY_DROP",
             deviations |-> Deviations({"eff_dev"}, dev_head, dev_eff, dev_flow)]
       ELSE IF /\ FLe(FAbs(dev_head), FInt(5))
               /\ FLe(FAbs(dev_eff), FInt(5))
               /\ FLe(FAbs(dev_flow), FInt(5))
       THEN [pattern |-> "NORMAL",
             deviations |-> Deviations({"head_dev", "eff_dev", "flow_dev"},
                                       dev_head, dev_eff, dev_flow)]
       ELSE [pattern |-> "MIXED_DEVIATION",
             deviations |-> Deviations({"head_dev", "eff_dev", "flow_dev"},
                                       dev_head, dev_eff, dev_flow)]

\* npsha_estimated - npshr of diagnose_hydraulic_single_point
NpshMargin(suction_pressure_bar, fluid_props, npshr) ==
    LET p_suction_abs_kpa == FMul(FAdd(suction_pressure_bar, Frac(1013, 1000)), FInt(100))
        npsha_estimated ==
            IF FGt(fluid_props.sg, FInt(0))
            THEN FDiv(FSub(p_suction_abs_kpa, fluid_props.vapor_pressure_kpa_38C),
                      FMul(fluid_props.sg, Frac(981, 100)))
            ELSE FInt(0)
    IN FSub(npsha_estimated, npshr)

\* the CAVITATION test without its noise condition
CavitatingAnyNoise(noise_type, npsh_margin) == FLt(npsh_margin, Frac(1, 2))

\* if noise_type == "Crackling" and npsh_margin < 0.5
Cavitating(noise_type, npsh_margin) ==
    noise_type = "Crackling" /\ FLt(npsh_margin, Frac(1, 2))

HydRecord(diagnosis, confidence, severity, fault_type, deviations, npsh_margin) ==
    [diagnosis |-> diagnosis, confidence |-> confidence, severity |-> severity,
     fault_type |-> fault_type, deviations |-> deviations,
     head_dev |-> DevGet(deviations, "head_dev"), npsh_margin_m |-> npsh_margin]

diagnose_hydraulic_single_point(hydraulic_calc, design_params, fluid_props, observations, context) ==
    LET cls == classify_hydraulic_performance(
                   hydraulic_calc.head_m, design_params.rated_head_m,
                   hydraulic_calc.efficiency_percent, design_params.bep_efficiency,
                   context.flow_aktual, design_params.rated_flow_m3h)
        pattern == cls.pattern
        deviations == cls.deviations
        npsh_margin == NpshMargin(context.suction_pressure_bar, fluid_props,
                                  design_params.npsh_required_m)
        noise_type == observations.noise_type
    IN IF Cavitating(noise_type, npsh_margin)
       THEN HydRecord("CAVITATION",
                      Min(90, 70 + FTrunc(FMul(FSub(Frac(1, 2), npsh_margin), FInt(20)))),
                      IF FLt(npsh_margin, Frac(3, 10)) THEN "High" ELSE "Medium",
                      "cavitation", deviations, npsh_margin)
       ELSE IF pattern = "UNDER_PERFORMANCE" /\ noise_type = "Normal"
       THEN HydRecord("IMPELLER_WEAR",
                      Min(85, 60 + FTrunc(FMul(FAbs(DevGet(deviations, "head_dev")), FInt(2)))),
                      IF FLt(DevGet(deviations, "head_dev"), FInt(-15)) THEN "High"
                      ELSE "Medium",
                      "wear", deviations, npsh_margin)
       ELSE IF pattern = "OVER_RESISTANCE"
       THEN HydRecord("SYSTEM_RESISTANCE_HIGH",
                      Min(90, 70 + FTrunc(FAbs(DevGet(deviations, "head_dev")))),
                      IF FLt(DevGet(deviations, "flow_dev"), FInt(-30)) THEN "High"
                      ELSE "Medium",
                      "system", deviations, npsh_margin)
       ELSE IF pattern = "EFFICIENCY_DROP"
       THEN HydRecord("EFFICIENCY_DROP",
                      Min(80, 65 + FTrunc(FAbs(DevGet(deviations, "eff_dev")))),
                      IF FLt(DevGet(deviations, "eff_dev"), FInt(-20)) THEN "High"
                      ELSE "Medium",
                      "efficiency", deviations, npsh_margin)
       ELSE IF pattern = "NORMAL"
       THEN HydRecord("NORMAL_OPERATION", 95, "Low", "normal", deviations, npsh_margin)
       ELSE HydRecord("Tidak Terdiagnosa", 40, "Medium", "unknown", deviations, npsh_margin)

(***************************************************************************)
(* Electrical domain                                                       *)
(***************************************************************************)
voltage_unbalance_warning == 1
voltage_unbalance_critical == 2
current_unbalance_warning == 5
current_unbalance_critical == 8
voltage_tolerance_low == 90
voltage_tolerance_high == 110
current_load_critical == 100

Max3(a, b, c) == Max(a, Max(b, c))

\* max(|x - avg|) / avg * 100 for avg = (a + b + c) / 3, 0 unless avg > 0
UnbalancePercent(a, b, c) ==
    LET sum == a + b + c
    IN IF sum > 0
       THEN Frac(100 * Max3(Abs(3 * a - sum), Abs(3 * b - sum), Abs(3 * c - sum)), sum)
       ELSE Frac(0, 1)

(***************************************************************************)
(* low <= (v_avg / rated_voltage * 100) <= high on doubles, for v_avg =     *)
(* vsum / 3 and rated_voltage > 0.  When v_avg is exactly 1.1 x rated, the *)
(* double quotient is the double nearest 1.1, which is above 1.1, and its  *)
(* product with 100 rounds to 110.00000000000001: the upper comparison     *)
(* fails at exactly 110 %.  At exactly 90 % the product rounds to 90.0.    *)
(***************************************************************************)
WithinTolerance(vsum, rated_voltage) ==
    /\ voltage_tolerance_low * 3 * rated_voltage <= 100 * vsum
    /\ 100 * vsum < voltage_tolerance_high * 3 * rated_voltage

calculate_electrical_parameters(v_l1l2, v_l2l3, v_l3l1, i_l1, i_l2, i_l3, rated_voltage, fla) ==
    LET vsum == v_l1l2 + v_l2l3 + v_l3l1
        isum == i_l1 + i_l2 + i_l3
    IN IF rated_voltage = 0 THEN [error |-> "ZeroDivisionError"]
       ELSE [error |-> "none",
             v_avg |-> Frac(vsum, 3),
             i_avg |-> Frac(isum, 3),
             voltage_unbalance_percent |-> UnbalancePercent(v_l1l2, v_l2l3, v_l3l1),
             current_unbalance_percent |-> UnbalancePercent(i_l1, i_l2, i_l3),
             load_estimate_percent |-> IF fla > 0 THEN Frac(100 * isum, 3 * fla)
                                       ELSE Frac(0, 1),
             voltage_within_tolerance |-> WithinTolerance(vsum, rated_voltage)]

ElecRecord(diagnosis, confidence, severity, fault_type, calc) ==
    [diagnosis |-> diagnosis, confidence |-> confidence, severity |-> severity,
     fault_type |-> fault_type,
     voltage_unbalance |-> calc.voltage_unbalance_percent,
     current_unbalance |-> calc.current_unbalance_percent,
     load_estimate |-> calc.load_estimate_percent]

\* as UnbalanceConfidence, without the cap at 95
UnbalanceConfidenceUncapped(x, warning, k) ==
    60 + IntTrunc((x.n - warning * x.d) * k, x.d)

\* 60 + int((x - warning) * k) for the fraction x
UnbalanceConfidence(x, warning, k) ==
    Min(95, 60 + IntTrunc((x.n - warning * x.d) * k, x.d))

\* as diagnose_electrical_condition, without the under-load rule
DiagnoseElectricalNoUnderLoad(calc, rated_voltage) ==
    LET vu == calc.voltage_unbalance_percent
        cu == calc.current_unbalance_percent
        load == calc.load_estimate_percent
    IN IF ~calc.voltage_within_tolerance
       THEN IF 10 * calc.v_avg.n < 9 * rated_voltage * calc.v_avg.d
            THEN ElecRecord("UNDER_VOLTAGE", 70,
                            IF FGt(load, FInt(80)) THEN "High" ELSE "Medium",
                            "voltage", calc)
            ELSE IF 10 * calc.v_avg.n > 11 * rated_voltage * calc.v_avg.d
            THEN ElecRecord("OVER_VOLTAGE", 70, "Medium", "voltage", calc)
            ELSE ElecRecord("NORMAL_ELECTRICAL", 95, "Low", "normal", calc)
       ELSE IF FGt(vu, FInt(voltage_unbalance_warning))
       THEN ElecRecord("VOLTAGE_UNBALANCE",
                       UnbalanceConfidence(vu, voltage_unbalance_warning, 15),
                       IF FGt(vu, FInt(voltage_unbalance_critical)) THEN "High"
                       ELSE "Medium",
                       "voltage", calc)
       ELSE IF FGt(cu, FInt(current_unbalance_warning))
       THEN ElecRecord("CURRENT_UNBALANCE",
                       UnbalanceConfidence(cu, current_unbalance_warning, 5),
                       IF FGt(cu, FInt(current_unbalance_critical)) THEN "High"
                       ELSE "Medium",
                       "current", calc)
       ELSE IF FGt(load, FInt(current_load_critical))
       THEN ElecRecord("OVER_LOAD",
                       Min(95, 55 + IntTrunc(load.n - 100 * load.d, load.d)),
                       "Medium", "load", calc)
       ELSE ElecRecord("NORMAL_ELECTRICAL", 95, "Low", "normal", calc)

diagnose_electrical_condition(calc, rated_voltage) ==
    LET vu == calc.voltage_unbalance_percent
        cu == calc.current_unbalance_percent
        load == calc.load_estimate_percent
    IN IF ~calc.voltage_within_tolerance
       THEN IF 10 * calc.v_avg.n < 9 * rated_voltage * calc.v_avg.d
            THEN ElecRecord("UNDER_VOLTAGE", 70,
                            IF FGt(load, FInt(80)) THEN "High" ELSE "Medium",
                            "voltage", calc)
            ELSE IF 10 * calc.v_avg.n > 11 * rated_voltage * calc.v_avg.d
            THEN ElecRecord("OVER_VOLTAGE", 70, "Medium", "voltage", calc)
            ELSE ElecRecord("NORMAL_ELECTRICAL", 95, "Low", "normal", calc)
       ELSE IF FGt(vu, FInt(voltage_unbalance_warning))
       THEN ElecRecord("VOLTAGE_UNBALANCE",
                       UnbalanceConfidence(vu, voltage_unbalance_warning, 15),
                       IF FGt(vu, FInt(voltage_unbalance_critical)) THEN "High"
                       ELSE "Medium",
                       "voltage", calc)
       ELSE IF FGt(cu, FInt(current_unbalance_warning))
       THEN ElecRecord("CURRENT_UNBALANCE",
                       UnbalanceConfidence(cu, current_unbalance_warning, 5),
                       IF FGt(cu, FInt(current_unbalance_critical)) THEN "High"
                       ELSE "Medium",
                       "current", calc)
       ELSE IF FGt(load, FInt(current_load_critical))
       THEN ElecRecord("OVER_LOAD",
                       Min(95, 55 + IntTrunc(load.n - 100 * load.d, load.d)),
                       "Medium", "load", calc)
       ELSE IF FLt(load, FInt(50))
       THEN ElecRecord("UNDER_LOAD", 50, "Low", "load", calc)
       ELSE ElecRecord("NORMAL_ELECTRICAL", 95, "Low", "normal", calc)

(***************************************************************************)
(* Aggregator inputs: arbitrary DiagnosisResults (confidence in 0..100,    *)
(* any severity, any fault_type tag) and bearing temperature sets.         *)
(***************************************************************************)
MechResults ==
    { [diagnosis |-> "Normal", fault_type |-> "normal", confidence |-> 99, severity |-> "Low"],
      [diagnosis |-> "Normal", fault_type |-> "normal", confidence |-> 0, severity |-> "Low"],
      [diagnosis |-> "MISALIGNMENT", fault_type |-> "low_freq", confidence |-> 85,
       severity |-> "High"],
      [diagnosis |-> "LOOSENESS", fault_type |-> "wear", confidence |-> 100,
       severity |-> "Medium"],
      [diagnosis |-> "BEARING_EARLY", fault_type |-> "high_freq", confidence |-> 5,
       severity |-> "Medium"] }

HydResults ==
    { [diagnosis |-> "NORMAL_OPERATION", fault_type |-> "normal", confidence |-> 95,
       severity |-> "Low", head_dev |-> Frac(0, 1)],
      [diagnosis |-> "CAVITATION", fault_type |-> "cavitation", confidence |-> 80,
       severity |-> "High", head_dev |-> Frac(-10, 1)],
      [diagnosis |-> "EFFICIENCY_DROP", fault_type |-> "efficiency", confidence |-> 70,
       severity |-> "Medium", head_dev |-> Frac(0, 1)],
      [diagnosis |-> "EFFICIENCY_DROP", fault_type |-> "efficiency", confidence |-> 65,
       severity |-> "Medium", head_dev |-> Frac(-10, 1)],
      [diagnosis |-> "IMPELLER_WEAR", fault_type |-> "wear", confidence |-> 0,
       severity |-> "Low", head_dev |-> Frac(-31, 6)],
      [diagnosis |-> "Tidak Terdiagnosa", fault_type |-> "unknown", confidence |-> 40,
       severity |-> "Medium", head_dev |-> Frac(-5, 1)] }

ElecResults ==
    { [diagnosis |-> "NORMAL_ELECTRICAL", fault_type |-> "normal", confidence |-> 95,
       severity |-> "Low", current_unbalance |-> Frac(1, 1)],
      [diagnosis |-> "VOLTAGE_UNBALANCE", fault_type |-> "voltage", confidence |-> 75,
       severity |-> "High", current_unbalance |-> Frac(6, 1)],
      [diagnosis |-> "OVER_LOAD", fault_type |-> "load", confidence |-> 60,
       severity |-> "Medium", current_unbalance |-> Frac(2, 1)],
      [diagnosis |-> "CURRENT_UNBALANCE", fault_type |-> "current", confidence |-> 0,
       severity |-> "Low", current_unbalance |-> Frac(31, 6)],
      [diagnosis |-> "UNDER_VOLTAGE", fault_type |-> "voltage", confidence |-> 100,
       severity |-> "Medium", current_unbalance |-> Frac(5, 1)],
      [diagnosis |-> "OVER_LOAD", fault_type |-> "voltage", confidence |-> 50,
       severity |-> "Low", current_unbalance |-> Frac(6, 1)] }

\* at most MaxHotTemps locations differ from the base reading
MaxHotTemps == 2
BaseTemp == 65
\* MissingKey marks, in the enumeration only, a key the dict does not hold
MissingKey == 0 - 1
AggTempVals == {0, BaseTemp, 85, 90, 95, MissingKey}

DictOf(g) == TempDict([k \in {l \in TempLocs : g[l] # MissingKey} |-> g[k]])

TempDictsOver(vals) ==
    { DictOf(g) : g \in { h \in [TempLocs -> vals] :
                          Cardinality({l \in TempLocs : h[l] # BaseTemp}) <= MaxHotTemps } }

\* the four widgets left at 0: no bearing temperature was measured
AllZeroTemps == TempDict([l \in TempLocs |-> 0])
AggTempSets == {NoTemp, AllZeroTemps} \cup TempDictsOver(AggTempVals)

MechInputsIdle ==
    vel_data = Absent /\ bands_data = Absent /\ fft_champ_data = Absent /\ rpm = Absent
BearingIdle == b_idx = 0 /\ bearing = Absent
ElecIdle == elec_in = Absent /\ elec_calc = Absent
HydIdle == hyd_in = Absent /\ hyd_calc = Absent
ReportIdle ==
    mech_data = Absent /\ hyd_data = Absent /\ elec_data = Absent /\ csv_report = Absent
AdjIdle == adj_consistent = Absent /\ temp_adjustment = Absent
PeakIdle == fft_amps = Absent

(***************************************************************************)
(* SpecAgg: one call of aggregate_cross_domain_diagnosis                   *)
(***************************************************************************)
InitAgg ==
    /\ mech_result \in MechResults
    /\ hyd_result \in HydResults
    /\ elec_result \in ElecResults
    /\ temp_data \in AggTempSets
    /\ integrated_result = Absent
    /\ MechInputsIdle /\ BearingIdle /\ ElecIdle /\ HydIdle /\ ReportIdle /\ AdjIdle /\ PeakIdle

\* a diagnosis record, as opposed to nothing stored or a raised exception
IsResult(r) == "diagnosis" \in DOMAIN r

\* the integrated tab runs once all three results are in the session (line 1278)
Aggregate ==
    /\ IsResult(mech_result) /\ IsResult(hyd_result) /\ IsResult(elec_result)
    /\ integrated_result = Absent
    /\ integrated_result' = aggregate_cross_domain_diagnosis(
                                mech_result, hyd_result, elec_result, temp_data)
    /\ UNCHANGED <<reportVars, adjVars, fft_amps>>
    /\ UNCHANGED <<mech_result, hyd_result, elec_result, temp_data>>
    /\ UNCHANGED <<mechInputs, bearingVars, elecVars, hydVars>>

NextAgg == Aggregate

SpecAgg == InitAgg /\ [][NextAgg]_vars

AggDone == integrated_result # Absent

\* the temperatures of the set that are present (key held, value not 0)
PresentTemps(td) ==
    IF Truthy(td) THEN { td.d[k] : k \in {l \in DOMAIN td.d : td.d[l] # 0} } ELSE {}

MaxDomainRank ==
    Max(SevRank(mech_result.severity),
        Max(SevRank(hyd_result.severity), SevRank(elec_result.severity)))

InSeq(x, s) == \E i \in 1..Len(s) : s[i] = x

(***************************************************************************)
(* C1: for every triple of domain results with confidences in 0..100 and   *)
(* every bearing-temperature set (none included), the integrated           *)
(* confidence lies in [0, 95].                                             *)
(***************************************************************************)
C1_ConfidenceInRange ==
    AggDone => integrated_result.confidence \in 0..95

(***************************************************************************)
(* C2: the integrated severity is High whenever a domain severity is High  *)
(* or a present temperature is >= 90 C, and in the temperature case the    *)
(* override note is among the correlation notes.                           *)
(***************************************************************************)
C2_HighWhenAnyHighOrCritical ==
    AggDone =>
        /\ (MaxDomainRank = 2 \/ \E t \in PresentTemps(temp_data) : t >= 90)
              => integrated_result.severity = "High"
        /\ (\E t \in PresentTemps(temp_data) : t >= 90)
              => InSeq(OverrideNote, integrated_result.correlation_notes)

(***************************************************************************)
(* C3: with no present temperature above the critical bound the integrated *)
(* severity is the maximum of the three domain severities; it is never     *)
(* below a domain severity, and it is above all three only when a present  *)
(* temperature exceeds the critical bound.                                 *)
(***************************************************************************)
C3_SeverityIsMax ==
    AggDone =>
        /\ (~\E t \in PresentTemps(temp_data) : t > 90)
              => SevRank(integrated_result.severity) = MaxDomainRank
        /\ SevRank(integrated_result.severity) >= MaxDomainRank
        /\ SevRank(integrated_result.severity) > MaxDomainRank
              => \E t \in PresentTemps(temp_data) : t > 90

\* a High and a Medium domain, a reading of exactly 90 C and none above it
C3_Witness ==
    /\ AggDone
    /\ 90 \in PresentTemps(temp_data)
    /\ ~\E t \in PresentTemps(temp_data) : t > 90
    /\ mech_result.severity = "High"
    /\ hyd_result.severity = "Medium"
    /\ integrated_result.severity = "High"

(***************************************************************************)
(* Mechanical inputs.  Every point reads the widget default (1.0 mm/s,     *)
(* bands 0.2 / 0.15 / 0.1 g) except for a few points.                      *)
(***************************************************************************)
\* at most MaxHot points carry a velocity other than the default
MaxHot == 2
BaseVel == 10
HotVels == {45, 46, 71, 72}

HotSets == { H \in SUBSET PointSet : Cardinality(H) <= MaxHot }
VelMaps ==
    UNION { { [p \in PointSet |-> IF p \in H THEN g[p] ELSE BaseVel] :
                g \in [H -> HotVels] } : H \in HotSets }

Bands(b1, b2, b3) == [Band1 |-> b1, Band2 |-> b2, Band3 |-> b3]
BaseBands == Bands(200, 150, 100)
BandTriples ==
    { BaseBands,
      Bands(750, 300, 300),     \* every band exactly on a threshold
      Bands(800, 350, 100),     \* BEARING_SEVERE
      Bands(200, 650, 250),     \* BEARING_DEVELOPED, Band2 > 3 x base
      Bands(200, 450, 250),     \* BEARING_DEVELOPED, Band2 <= 3 x base
      Bands(200, 150, 350) }    \* BEARING_EARLY

\* the band records differ from the default on these two points only
BandVaryPoints == { Point("Pump", "DE", "Vertical"), Point("Motor", "NDE", "Horizontal") }
MechBandTriples == BandTriples \ {Bands(750, 300, 300)}
MechBandMaps ==
    { [p \in PointSet |-> IF p \in BandVaryPoints THEN g[p] ELSE BaseBands] :
        g \in [BandVaryPoints -> MechBandTriples] }

\* the sidebar's operating RPM; rpm / 60 in units of 0.1 Hz
OperatingRpm == {3000}
RpmHz(r) == (10 * r) \div 60
FftLists ==
    { << <<500, 100>>, <<1000, 100>>, <<1500, 100>> >>,
      << <<500, 300>>, <<1000, 10>>, <<1500, 10>> >> }

(***************************************************************************)
(* SpecMech: one call of diagnose_mechanical_system                        *)
(***************************************************************************)
OthersIdleForMech ==
    /\ hyd_result = Absent /\ elec_result = Absent
    /\ temp_data = NoTemp /\ integrated_result = Absent
    /\ BearingIdle /\ ElecIdle /\ HydIdle /\ ReportIdle /\ AdjIdle /\ PeakIdle

InitMech ==
    /\ vel_data \in VelMaps
    /\ bands_data \in MechBandMaps
    /\ fft_champ_data \in FftLists
    /\ rpm \in OperatingRpm
    /\ mech_result = Absent
    /\ OthersIdleForMech

DiagnoseMechanical ==
    /\ mech_result = Absent
    /\ mech_result' = diagnose_mechanical_system(vel_data, bands_data, fft_champ_data,
                                                 RpmHz(rpm))
    /\ UNCHANGED <<reportVars, adjVars, fft_amps>>
    /\ UNCHANGED <<hyd_result, elec_result, temp_data, integrated_result>>
    /\ UNCHANGED <<mechInputs, bearingVars, elecVars, hydVars>>

NextMech == DiagnoseMechanical

SpecMech == InitMech /\ [][NextMech]_vars

MechDone == mech_result # Absent

\* the greatest overall velocity of the map
MaxVel(v) == CHOOSE x \in { v[p] : p \in DOMAIN v } : \A q \in DOMAIN v : v[q] <= x

\* position of a point in the canonical enumeration
PointIndex(p) == CHOOSE i \in 1..Len(points) : points[i] = p

(***************************************************************************)
(* C6: the champion is a point of maximum overall velocity, and among the  *)
(* points that share the maximum it is the first in canonical order.       *)
(* The champion the diagnoser chose is the champion_point of every result  *)
(* other than Normal.                                                      *)
(***************************************************************************)
C6_ChampionIsFirstMax ==
    (MechDone /\ mech_result.diagnosis # "Normal") =>
        /\ mech_result.champion_point \in DOMAIN vel_data
        /\ vel_data[mech_result.champion_point] = MaxVel(vel_data)
        /\ \A p \in DOMAIN vel_data :
              vel_data[p] = MaxVel(vel_data)
                 => PointIndex(mech_result.champion_point) <= PointIndex(p)

\* two points tie for the maximum and the earlier one is the champion
C6_Witness ==
    /\ MechDone
    /\ mech_result.diagnosis # "Normal"
    /\ \E p, q \in DOMAIN vel_data :
          /\ p # q
          /\ vel_data[p] = MaxVel(vel_data)
          /\ vel_data[q] = MaxVel(vel_data)
          /\ mech_result.champion_point = p
          /\ PointIndex(p) < PointIndex(q)

(***************************************************************************)
(* C7: the final mechanical result is one path's result, by the priority   *)
(* low-frequency High > bearing High > low-frequency Medium > bearing      *)
(* Medium > Normal, decided by the champion velocity (7.1 and 4.5 mm/s)    *)
(* and the bearing severity; a Normal result carries the 'none' champion.  *)
(***************************************************************************)
C7_FinalPriority ==
    MechDone =>
        LET mv == MaxVel(vel_data)
            bp == BearingLoop(1, bands_data, BearingStart)
            lf == LowFreqPath(vel_data, fft_champ_data, RpmHz(rpm), Champion(vel_data))
            r == mech_result
            IsLowFreq(sev) == /\ r.diagnosis = lf.low_freq_diag
                              /\ r.confidence = lf.low_freq_conf
                              /\ r.severity = sev
                              /\ r.fault_type = "low_freq"
            IsBearing(sev) == /\ r.diagnosis = bp.bearing_diag
                              /\ r.severity = sev
                              /\ r.fault_type = "high_freq"
        IN /\ mv > 71 => IsLowFreq("High")
           /\ (mv <= 71 /\ bp.worst_bearing_severity = "High") => IsBearing("High")
           /\ (mv <= 71 /\ mv > 45 /\ bp.worst_bearing_severity # "High")
                 => IsLowFreq("Medium")
           /\ (mv <= 45 /\ bp.worst_bearing_severity = "Medium") => IsBearing("Medium")
           /\ (mv <= 45 /\ bp.worst_bearing_severity = "Low")
                 => /\ r.diagnosis = "Normal"
                    /\ r.severity = "Low"
                    /\ r.champion_point = NoChampion

\* a champion above 7.1 mm/s together with a High bearing severity
C7_Witness ==
    /\ MechDone
    /\ MaxVel(vel_data) > 71
    /\ BearingLoop(1, bands_data, BearingStart).worst_bearing_severity = "High"
    /\ mech_result.fault_type = "low_freq"
    /\ mech_result.severity = "High"

(***************************************************************************)
(* SpecElec: calculate_electrical_parameters, then                         *)
(* diagnose_electrical_condition on what it returned                       *)
(***************************************************************************)
VoltTriples ==
    { <<400, 402, 398>>, <<440, 440, 440>>, <<441, 441, 441>>, <<360, 360, 360>>,
      <<359, 359, 359>>, <<0, 0, 0>>, <<396, 400, 404>>, <<395, 400, 405>>,
      <<392, 400, 408>>, <<390, 400, 410>>, <<430, 440, 450>> }
AmpTriples ==
    { <<82, 84, 83>>, <<0, 0, 0>>, <<50, 84, 83>>, <<95, 100, 105>>, <<94, 100, 106>>,
      <<92, 100, 108>>, <<90, 100, 110>>, <<40, 41, 42>>, <<85, 85, 85>>,
      <<68, 68, 68>>, <<69, 69, 69>> }
RatedVoltages == {0, 400}
FlaValues == {0, 85, 200}

ElecInputs ==
    { [v |-> v, i |-> i, rated_voltage |-> r, fla |-> f] :
        v \in VoltTriples, i \in AmpTriples, r \in RatedVoltages, f \in FlaValues }

OthersIdleForElec ==
    /\ mech_result = Absent /\ hyd_result = Absent
    /\ temp_data = NoTemp /\ integrated_result = Absent
    /\ MechInputsIdle /\ BearingIdle /\ HydIdle /\ ReportIdle /\ AdjIdle /\ PeakIdle

InitElec ==
    /\ elec_in \in ElecInputs
    /\ elec_calc = Absent
    /\ elec_result = Absent
    /\ OthersIdleForElec

CalculateElectrical ==
    /\ elec_calc = Absent
    /\ elec_calc' = calculate_electrical_parameters(
                        elec_in.v[1], elec_in.v[2], elec_in.v[3],
                        elec_in.i[1], elec_in.i[2], elec_in.i[3],
                        elec_in.rated_voltage, elec_in.fla)
    /\ UNCHANGED <<reportVars, adjVars, fft_amps>>
    /\ UNCHANGED <<elec_in, elec_result, mech_result, hyd_result, temp_data,
                   integrated_result, mechInputs, bearingVars, hydVars>>

\* the call line 1245 makes once calculate_electrical_parameters has returned
DiagnoseElectrical ==
    /\ elec_calc # Absent
    /\ elec_calc.error = "none"
    /\ elec_result = Absent
    /\ elec_result' = diagnose_electrical_condition(elec_calc, elec_in.rated_voltage)
    /\ UNCHANGED <<reportVars, adjVars, fft_amps>>
    /\ UNCHANGED <<elec_in, elec_calc, mech_result, hyd_result, temp_data,
                   integrated_result, mechInputs, bearingVars, hydVars>>

NextElec == CalculateElectrical \/ DiagnoseElectrical

SpecElec == InitElec /\ [][NextElec]_vars

(***************************************************************************)
(* SpecHyd: calculate_hydraulic_parameters, then                           *)
(* diagnose_hydraulic_single_point on what it returned (lines 1148-1166)   *)
(***************************************************************************)
Diesel == [sg |-> Frac(84, 100), vapor_pressure_kpa_38C |-> Frac(1, 2)]
NoiseTypes == {"Normal", "Whining", "Crackling"}

HydInput(s, d, fl, p, sg, rh, bep, rf, nr, fp, no) ==
    [suction_pressure |-> s, discharge_pressure |-> d, flow_rate |-> fl,
     motor_power |-> p, sg |-> sg,
     design_params |-> [rated_flow_m3h |-> rf, rated_head_m |-> rh,
                        bep_efficiency |-> bep, npsh_required_m |-> nr],
     fluid_props |-> fp,
     observations |-> [noise_type |-> no],
     context |-> [flow_aktual |-> fl, suction_pressure_bar |-> s]]

\* suction 0.44 bar, discharge 3.73 bar, 100 m3/h, 15 kW on Diesel gives a head
\* of 39.95 m and an efficiency of 60.96 %; the design data put the deviations
\* on both sides of every threshold, and the NPSH required puts the margin at
\* 17.57, 0.47 or 0.27 m
HydInputs ==
    { HydInput(Frac(44, 100), Frac(373, 100), FInt(fl), FInt(p), sg,
               FInt(rh), FInt(bep), FInt(rf), nr, fp, no) :
        fl \in {0, 95, 100}, p \in {0, 15}, sg \in {FInt(0), Frac(84, 100)},
        rh \in {0, 36, 40, 45, 50}, bep \in {0, 61, 65, 70, 80},
        rf \in {0, 100, 110, 150}, nr \in {FInt(0), Frac(171, 10), Frac(173, 10)},
        fp \in {Diesel, [Diesel EXCEPT !.sg = FInt(0)]}, no \in NoiseTypes }

OthersIdleForHyd ==
    /\ mech_result = Absent /\ elec_result = Absent
    /\ temp_data = NoTemp /\ integrated_result = Absent
    /\ MechInputsIdle /\ BearingIdle /\ ElecIdle /\ ReportIdle /\ AdjIdle /\ PeakIdle

InitHyd ==
    /\ hyd_in \in HydInputs
    /\ hyd_calc = Absent
    /\ hyd_result = Absent
    /\ OthersIdleForHyd

CalculateHydraulic ==
    /\ hyd_in # Absent
    /\ hyd_calc = Absent
    /\ hyd_calc' = calculate_hydraulic_parameters(
                       hyd_in.suction_pressure, hyd_in.discharge_pressure,
                       hyd_in.flow_rate, hyd_in.motor_power, hyd_in.sg)
    /\ UNCHANGED <<reportVars, adjVars, fft_amps>>
    /\ UNCHANGED <<hyd_in, hyd_result, mech_result, elec_result, temp_data,
                   integrated_result, mechInputs, bearingVars, elecVars>>

DiagnoseHydraulic ==
    /\ hyd_calc # Absent
    /\ hyd_result = Absent
    /\ hyd_result' = diagnose_hydraulic_single_point(
                         hyd_calc, hyd_in.design_params, hyd_in.fluid_props,
                         hyd_in.observations, hyd_in.context)
    /\ UNCHANGED <<reportVars, adjVars, fft_amps>>
    /\ UNCHANGED <<hyd_in, hyd_calc, mech_result, elec_result, temp_data,
                   integrated_result, mechInputs, bearingVars, elecVars>>

NextHyd == CalculateHydraulic \/ DiagnoseHydraulic

SpecHyd == InitHyd /\ [][NextHyd]_vars

(***************************************************************************)
(* SpecCalc: the calculators of both domains on degenerate inputs          *)
(***************************************************************************)
CalcHydInputs ==
    { HydInput(Frac(44, 100), d, FInt(fl), FInt(p), sg,
               FInt(rh), FInt(bep), FInt(rf), FInt(0), Diesel, "Normal") :
        d \in {FInt(0), Frac(44, 100), Frac(373, 100)},
        fl \in {0, 100}, p \in {0, 15}, sg \in {FInt(0), Frac(84, 100)},
        rh \in {0, 40}, bep \in {0, 61}, rf \in {0, 100} }

CalcElecInputs ==
    { [v |-> v, i |-> i, rated_voltage |-> r, fla |-> f] :
        v \in { <<400, 402, 398>>, <<0, 0, 0>> },
        i \in { <<82, 84, 83>>, <<0, 0, 0>> },
        r \in RatedVoltages, f \in FlaValues }

InitCalc ==
    /\ hyd_in \in CalcHydInputs
    /\ elec_in \in CalcElecInputs
    /\ hyd_calc = Absent /\ elec_calc = Absent
    /\ hyd_result = Absent /\ elec_result = Absent
    /\ mech_result = Absent
    /\ temp_data = NoTemp /\ integrated_result = Absent
    /\ MechInputsIdle /\ BearingIdle /\ ReportIdle /\ AdjIdle /\ PeakIdle

NextCalc == CalculateHydraulic \/ DiagnoseHydraulic \/ CalculateElectrical

SpecCalc == InitCalc /\ [][NextCalc]_vars

(***************************************************************************)
(* SpecBearing: the bearing loop of diagnose_mechanical_system, one point  *)
(* per step                                                                *)
(***************************************************************************)
MaxHotBands == 2
HotBandSets == { H \in SUBSET PointSet : Cardinality(H) <= MaxHotBands }
BearingBandMaps ==
    UNION { { [p \in PointSet |-> IF p \in H THEN g[p] ELSE BaseBands] :
                g \in [H -> BandTriples \ {BaseBands}] } : H \in HotBandSets }

InitBearing ==
    /\ bands_data \in BearingBandMaps
    /\ b_idx = 0
    /\ bearing = BearingStart
    /\ vel_data = Absent /\ fft_champ_data = Absent /\ rpm = Absent
    /\ mech_result = Absent /\ hyd_result = Absent /\ elec_result = Absent
    /\ temp_data = NoTemp /\ integrated_result = Absent
    /\ ElecIdle /\ HydIdle /\ ReportIdle /\ AdjIdle /\ PeakIdle

\* one iteration of "for point, bands in bands_data.items()"
BearingStep ==
    /\ bearing # Absent
    /\ b_idx < Len(points)
    /\ b_idx' = b_idx + 1
    /\ bearing' = IF points[b_idx + 1] \in DOMAIN bands_data
                  THEN BearingPoint(bearing, bands_data[points[b_idx + 1]])
                  ELSE bearing
    /\ UNCHANGED <<reportVars, adjVars, fft_amps>>
    /\ UNCHANGED <<mech_result, hyd_result, elec_result, temp_data, integrated_result,
                   mechInputs, elecVars, hydVars>>

NextBearing == BearingStep

SpecBearing == InitBearing /\ [][NextBearing]_vars

(***************************************************************************)
(* SpecSchema: measurement sets that lack keys of the 12-point or of the   *)
(* 4-point schema, through diagnose_mechanical_system and then             *)
(* aggregate_cross_domain_diagnosis                                        *)
(***************************************************************************)
\* no key missing, or one
MissingSets == {{}} \cup { {p} : p \in PointSet }
Restrict(f, D) == [k \in D |-> f[k]]
EmptyMap == [p \in {} |-> 0]

SchemaVelMaps ==
    { Restrict(v, PointSet \ M) :
        v \in { [p \in PointSet |-> BaseVel],
                [p \in PointSet |-> IF p = points[3] THEN 72 ELSE BaseVel],
                [p \in PointSet |-> IF p = points[8] THEN 46 ELSE BaseVel] },
        M \in MissingSets }

SchemaBandMaps ==
    { Restrict(b, PointSet \ M) :
        b \in { [p \in PointSet |-> BaseBands],
                [p \in PointSet |-> IF p = points[2] THEN Bands(800, 350, 100)
                                    ELSE BaseBands] },
        M \in MissingSets } \cup {EmptyMap}

SchemaTempSets == {NoTemp} \cup TempDictsOver({0, BaseTemp, 85, MissingKey})

InitSchema ==
    /\ vel_data \in SchemaVelMaps
    /\ bands_data \in SchemaBandMaps
    /\ fft_champ_data = << <<500, 100>>, <<1000, 100>>, <<1500, 100>> >>
    /\ rpm \in OperatingRpm
    /\ temp_data \in SchemaTempSets
    /\ mech_result = Absent
    /\ hyd_result = CHOOSE h \in HydResults : h.diagnosis = "NORMAL_OPERATION"
    /\ elec_result = CHOOSE e \in ElecResults : e.diagnosis = "NORMAL_ELECTRICAL"
    /\ integrated_result = Absent
    /\ BearingIdle /\ ElecIdle /\ HydIdle /\ ReportIdle /\ AdjIdle /\ PeakIdle

NextSchema == DiagnoseMechanical \/ Aggregate

SpecSchema == InitSchema /\ [][NextSchema]_vars

\* C4: a measurement set that lacks a key of the 12-point schema (velocity or
\* band map) makes diagnose_mechanical_system fail with InvalidInputError, one
\* that lacks a key of the 4-point temperature schema makes
\* aggregate_cross_domain_diagnosis fail with InvalidInputError, and neither
\* produces a diagnosis; a complete set is diagnosed, also with temperatures of 0
C4_MissingKeyRejected ==
    /\ (mech_result # Absent /\ (DOMAIN vel_data # PointSet \/ DOMAIN bands_data # PointSet))
          => mech_result = MechError("InvalidInputError")
    /\ (integrated_result # Absent /\ temp_data.given /\ DOMAIN temp_data.d # TempLocs)
          => integrated_result = MechError("InvalidInputError")
    /\ (integrated_result # Absent /\ temp_data.given /\ DOMAIN temp_data.d = TempLocs)
          => IsResult(integrated_result)

\* C5: no calculator fails on non-negative inputs, and every quantity whose
\* denominator is zero is 0: head_m when sg <= 0, hydraulic_power_kw unless
\* flow > 0 and head > 0, efficiency_percent when motor_power <= 0, each
\* deviation of classify_hydraulic_performance when its design value is 0, the
\* unbalances when the phase average is 0 and the load estimate when FLA is 0
C5_CalculatorsNeverFail ==
    /\ hyd_calc # Absent =>
          /\ FLe(hyd_in.sg, FInt(0)) => hyd_calc.head_m = FInt(0)
          /\ ~(FGt(hyd_in.flow_rate, FInt(0)) /\ FGt(hyd_calc.head_m, FInt(0)))
                => hyd_calc.hydraulic_power_kw = FInt(0)
          /\ FLe(hyd_in.motor_power, FInt(0)) => hyd_calc.efficiency_percent = FInt(0)
    /\ hyd_result # Absent =>
          /\ hyd_in.design_params.rated_head_m = FInt(0)
                => DevGet(hyd_result.deviations, "head_dev") = FInt(0)
          /\ hyd_in.design_params.bep_efficiency = FInt(0)
                => DevGet(hyd_result.deviations, "eff_dev") = FInt(0)
          /\ hyd_in.design_params.rated_flow_m3h = FInt(0)
                => DevGet(hyd_result.deviations, "flow_dev") = FInt(0)
    /\ elec_calc # Absent =>
          /\ elec_calc.error = "none"
          /\ elec_in.v = <<0, 0, 0>> => elec_calc.voltage_unbalance_percent = FInt(0)
          /\ elec_in.i = <<0, 0, 0>> => elec_calc.current_unbalance_percent = FInt(0)
          /\ elec_in.fla = 0 => elec_calc.load_estimate_percent = FInt(0)

\* C8: the running bearing severity never goes down while the points are
\* processed, and once all points are processed it is the greatest severity
\* that the per-point rules assign to any of the band records
PointSeverityRank(bands) == SevRank(BearingPoint(BearingStart, bands).worst_bearing_severity)
MaxPointSeverityRank(bmap) ==
    CHOOSE r \in 0..2 :
        /\ \E p \in DOMAIN bmap : PointSeverityRank(bmap[p]) = r
        /\ \A p \in DOMAIN bmap : PointSeverityRank(bmap[p]) <= r

C8_SeverityOnlyEscalates ==
    /\ [][SevRank(bearing'.worst_bearing_severity)
            >= SevRank(bearing.worst_bearing_severity)]_vars
    /\ [](b_idx = Len(points) =>
            SevRank(bearing.worst_bearing_severity) = MaxPointSeverityRank(bands_data))

\* C9: diagnose_hydraulic_single_point returns the diagnosis of the first rule
\* that matches, in the order CAVITATION (noise Crackling and NPSH margin < 0.5;
\* High if margin < 0.3), IMPELLER_WEAR (pattern UNDER_PERFORMANCE and noise
\* Normal; High if head_dev < -15), SYSTEM_RESISTANCE_HIGH (pattern
\* OVER_RESISTANCE; High if flow_dev < -30), EFFICIENCY_DROP (pattern
\* EFFICIENCY_DROP; High if eff_dev < -20), NORMAL_OPERATION (pattern NORMAL;
\* Low, confidence 95), and otherwise undiagnosed, Medium, confidence 40
HydPattern ==
    classify_hydraulic_performance(
        hyd_calc.head_m, hyd_in.design_params.rated_head_m,
        hyd_calc.efficiency_percent, hyd_in.design_params.bep_efficiency,
        hyd_in.context.flow_aktual, hyd_in.design_params.rated_flow_m3h)
HydMargin ==
    NpshMargin(hyd_in.context.suction_pressure_bar, hyd_in.fluid_props,
               hyd_in.design_params.npsh_required_m)
HighIf(c) == IF c THEN "High" ELSE "Medium"

C9_FirstMatch ==
    hyd_result # Absent =>
        LET noise == hyd_in.observations.noise_type
            pattern == HydPattern.pattern
            dev == HydPattern.deviations
            r == hyd_result
        IN IF noise = "Crackling" /\ FLt(HydMargin, Frac(1, 2))
           THEN r.diagnosis = "CAVITATION"
                /\ r.severity = HighIf(FLt(HydMargin, Frac(3, 10)))
           ELSE IF pattern = "UNDER_PERFORMANCE" /\ noise = "Normal"
           THEN r.diagnosis = "IMPELLER_WEAR"
                /\ r.severity = HighIf(FLt(dev["head_dev"], FInt(-15)))
           ELSE IF pattern = "OVER_RESISTANCE"
           THEN r.diagnosis = "SYSTEM_RESISTANCE_HIGH"
                /\ r.severity = HighIf(FLt(dev["flow_dev"], FInt(-30)))
           ELSE IF pattern = "EFFICIENCY_DROP"
           THEN r.diagnosis = "EFFICIENCY_DROP"
                /\ r.severity = HighIf(FLt(dev["eff_dev"], FInt(-20)))
           ELSE IF pattern = "NORMAL"
           THEN r.diagnosis = "NORMAL_OPERATION" /\ r.severity = "Low"
                /\ r.confidence = 95
           ELSE r.diagnosis = "Tidak Terdiagnosa" /\ r.severity = "Medium"
                /\ r.confidence = 40

\* a run where the first rule wins over a later one that matches too: crackling
\* noise with a margin under 0.3 m on a pump whose pattern is OVER_RESISTANCE
C9_Witness ==
    /\ hyd_result # Absent
    /\ hyd_result.diagnosis = "CAVITATION" /\ hyd_result.severity = "High"
    /\ HydPattern.pattern = "OVER_RESISTANCE"

\* C10: diagnose_electrical_condition returns the code of the first rule that
\* matches: average voltage under 90 % of rated -> UNDER_VOLTAGE (High if load
\* > 80 %, else Medium), over 110 % -> OVER_VOLTAGE (Medium); voltage unbalance
\* > 1 % -> VOLTAGE_UNBALANCE (High if > 2 %); current unbalance > 5 % ->
\* CURRENT_UNBALANCE (High if > 8 %); load > 100 % -> OVER_LOAD (Medium); load
\* < 50 % -> UNDER_LOAD (Low, 50); otherwise NORMAL_ELECTRICAL (Low, 95)
C10_FirstMatch ==
    elec_result # Absent =>
        LET vsum == elec_in.v[1] + elec_in.v[2] + elec_in.v[3]
            rated == elec_in.rated_voltage
            vu == elec_calc.voltage_unbalance_percent
            cu == elec_calc.current_unbalance_percent
            load == elec_calc.load_estimate_percent
            r == elec_result
        IN IF 100 * vsum < 90 * 3 * rated
           THEN r.diagnosis = "UNDER_VOLTAGE"
                /\ r.severity = HighIf(FGt(load, FInt(80)))
           ELSE IF 100 * vsum > 110 * 3 * rated
           THEN r.diagnosis = "OVER_VOLTAGE" /\ r.severity = "Medium"
           ELSE IF FGt(vu, FInt(1))
           THEN r.diagnosis = "VOLTAGE_UNBALANCE" /\ r.severity = HighIf(FGt(vu, FInt(2)))
           ELSE IF FGt(cu, FInt(5))
           THEN r.diagnosis = "CURRENT_UNBALANCE" /\ r.severity = HighIf(FGt(cu, FInt(8)))
           ELSE IF FGt(load, FInt(100))
           THEN r.diagnosis = "OVER_LOAD" /\ r.severity = "Medium"
           ELSE IF FLt(load, FInt(50))
           THEN r.diagnosis = "UNDER_LOAD" /\ r.severity = "Low" /\ r.confidence = 50
           ELSE r.diagnosis = "NORMAL_ELECTRICAL" /\ r.severity = "Low"
                /\ r.confidence = 95

(***************************************************************************)
(* SpecTemp: one call of calculate_temperature_confidence_adjustment       *)
(***************************************************************************)
AdjTempVals == {0, 50, BaseTemp, 75, 80, 81, 85, 90, 95, MissingKey}
AdjTempSets == TempDictsOver(AdjTempVals)

InitTemp ==
    /\ temp_data \in AdjTempSets
    /\ adj_consistent \in BOOLEAN
    /\ temp_adjustment = Absent
    /\ mech_result = Absent /\ hyd_result = Absent /\ elec_result = Absent
    /\ integrated_result = Absent
    /\ MechInputsIdle /\ BearingIdle /\ ElecIdle /\ HydIdle /\ ReportIdle /\ PeakIdle

AdjustTemperature ==
    /\ temp_adjustment = Absent
    /\ temp_adjustment' = calculate_temperature_confidence_adjustment(
                              temp_data.d, adj_consistent)
    /\ UNCHANGED <<mech_result, hyd_result, elec_result, temp_data, integrated_result,
                   mechInputs, bearingVars, elecVars, hydVars, reportVars,
                   adj_consistent, fft_amps>>

NextTemp == AdjustTemperature

SpecTemp == InitTemp /\ [][NextTemp]_vars

\* the delta the claim gives a reading of one location
ClaimedBucketDelta(t, consistent) ==
    IF t >= 90 THEN (IF consistent THEN 20 ELSE -10)
    ELSE IF t >= 80 THEN (IF consistent THEN 15 ELSE -5)
    ELSE IF t >= 70 THEN (IF consistent THEN 10 ELSE 0)
    ELSE 0

PresentLocs(d) == { l \in DOMAIN d : d[l] # 0 }

RECURSIVE SumOver(_, _, _)
SumOver(S, d, consistent) ==
    IF S = {} THEN 0
    ELSE LET l == CHOOSE x \in S : TRUE
         IN ClaimedBucketDelta(d[l], consistent) + SumOver(S \ {l}, d, consistent)

ClaimedPairDelta(d, a, b) ==
    IF {a, b} \subseteq PresentLocs(d) /\ Abs(d[a] - d[b]) > 15 THEN 5 ELSE 0

ClaimedRawAdjustment(d, consistent) ==
    SumOver(PresentLocs(d), d, consistent)
    + ClaimedPairDelta(d, "Pump_DE", "Pump_NDE")
    + ClaimedPairDelta(d, "Motor_DE", "Motor_NDE")

\* C11: the adjustment returned lies in [-10, 20] and is the clamp to that
\* interval of the sum of the bucket deltas of the present locations plus 5 for
\* each machine whose DE and NDE readings are both present and differ by more
\* than 15 C; the Motor_DE > Pump_DE + 10 rule contributes a note and no delta
C11_AdjustmentIsClampedSum ==
    temp_adjustment # Absent =>
        LET raw == ClaimedRawAdjustment(temp_data.d, adj_consistent)
            motor_note == Note("Motor DE > Pump DE - Possible electrical origin", "")
        IN /\ temp_adjustment.adjustment \in -10..20
           /\ temp_adjustment.adjustment = Min(20, Max(-10, raw))
           /\ ({"Motor_DE", "Pump_DE"} \subseteq PresentLocs(temp_data.d)
               /\ temp_data.d["Motor_DE"] > temp_data.d["Pump_DE"] + 10)
                 <=> InSeq(motor_note, temp_adjustment.notes)

\* an inconsistent call whose raw sum is below the clamp: Elevated and Critical
\* readings on the motor, more than 15 C apart, the motor DE hotter than the pump
C11_Witness ==
    /\ temp_adjustment # Absent
    /\ adj_consistent = FALSE
    /\ DOMAIN temp_data.d = TempLocs
    /\ temp_data.d["Motor_DE"] = 95 /\ temp_data.d["Motor_NDE"] = 75
    /\ temp_adjustment.adjustment = -5

(***************************************************************************)
(* C12: whenever the mechanical result is not Normal and a present bearing *)
(* temperature is in the Critical bucket (>= 90 C), the temperature bonus  *)
(* added to the correlation bonus is exactly +20, whatever the other       *)
(* temperatures are, and the integrated severity is High.                  *)
(***************************************************************************)
C12_CriticalConfirmsAndForcesHigh ==
    (AggDone /\ mech_result.diagnosis # "Normal"
             /\ \E t \in PresentTemps(temp_data) : get_temperature_status(t) = "Critical")
        => /\ integrated_result.confidence =
                  FinalConfidence(mech_result, hyd_result, elec_result,
                                  RuleBonus(mech_result, hyd_result, elec_result) + 20)
           /\ integrated_result.severity = "High"

\* the rules as the claim lists them: <<matches, bonus, note, label>>
ClaimedRules ==
    << [matches |-> /\ elec_result.fault_type = "voltage"
                    /\ mech_result.diagnosis \in {"MISALIGNMENT", "LOOSENESS"}
                    /\ FLt(hyd_result.head_dev, FInt(-5)),
        bonus |-> 15,
        note |-> "Voltage unbalance -> torque pulsation -> hydraulic instability",
        label |-> "Electrical-Mechanical-Hydraulic Coupled Fault"],
       [matches |-> /\ hyd_result.fault_type = "cavitation"
                    /\ mech_result.fault_type = "wear"
                    /\ FGt(elec_result.current_unbalance, FInt(5)),
        bonus |-> 20,
        note |-> "Cavitation -> impeller erosion -> unbalance -> current fluctuation",
        label |-> "Cascading Failure: Cavitation Origin"],
       [matches |-> /\ elec_result.diagnosis = "OVER_LOAD"
                    /\ hyd_result.fault_type = "efficiency",
        bonus |-> 10,
        note |-> "High electrical input + low hydraulic output -> internal loss",
        label |-> "Internal Loss Investigation Required"] >>

MatchingRules == SelectSeq(ClaimedRules, LAMBDA r : r.matches)

MatchingBonus ==
    LET f[i \in 0..3] == IF i = 0 THEN 0
                         ELSE f[i-1] + (IF ClaimedRules[i].matches
                                        THEN ClaimedRules[i].bonus ELSE 0)
    IN f[3]

\* the temperature part of the correlation bonus
TemperatureBonus ==
    IF Truthy(temp_data)
    THEN calculate_temperature_confidence_adjustment(
             temp_data.d, mech_result.fault_type # "normal").adjustment
    ELSE 0

(***************************************************************************)
(* C13: the three correlation rules are evaluated independently: the rule  *)
(* part of the bonus is the sum of the bonuses (+15, +20, +10) of all      *)
(* matching rules, the correlation notes start with the notes of the       *)
(* matching rules in rule order, and the label is that of the last         *)
(* matching rule (a later match overwrites an earlier label).              *)
(***************************************************************************)
C13_RulesIndependent ==
    AggDone =>
        LET n == Len(MatchingRules)
        IN /\ integrated_result.confidence =
                  FinalConfidence(mech_result, hyd_result, elec_result,
                                  MatchingBonus + TemperatureBonus)
           /\ Len(integrated_result.correlation_notes) >= n
           /\ \A i \in 1..n :
                  integrated_result.correlation_notes[i] = MatchingRules[i].note
           /\ n > 0 => integrated_result.diagnosis = MatchingRules[n].label

\* the coupled-fault and the internal-loss rule both match
C13_Witness ==
    /\ AggDone
    /\ Len(MatchingRules) = 2
    /\ MatchingRules[1].bonus = 15 /\ MatchingRules[2].bonus = 10
    /\ integrated_result.diagnosis = "Internal Loss Investigation Required"
    /\ integrated_result.confidence < 95

\* the notes the temperature findings add to the correlation notes, from the
\* readings of the state: pump DE-NDE difference, motor hotter than pump, and
\* the critical override (a present reading above 90 C)
TemperatureFindings ==
    IF ~Truthy(temp_data) THEN <<>>
    ELSE LET d == temp_data.d
             here == PresentLocs(d)
         IN (IF {"Pump_DE", "Pump_NDE"} \subseteq here
                /\ Abs(d["Pump_DE"] - d["Pump_NDE"]) > 15
             THEN <<"Pump DE-NDE dT >15C -> Localized fault on DE bearing">> ELSE <<>>)
            \o (IF {"Motor_DE", "Pump_DE"} \subseteq here
                   /\ d["Motor_DE"] > d["Pump_DE"] + 10
                THEN <<"Motor DE > Pump DE -> Possible electrical origin">> ELSE <<>>)
            \o (IF \E l \in here : d[l] > 90 THEN <<OverrideNote>> ELSE <<>>)

(***************************************************************************)
(* C14 as stated: when none of the three correlation rules matches, the    *)
(* label is the no-correlation sentinel and the correlation notes are      *)
(* exactly the single no-correlation sentinel note, for every temperature  *)
(* set.                                                                    *)
(***************************************************************************)
C14_SentinelForEveryTemperatureSet ==
    (AggDone /\ Len(MatchingRules) = 0) =>
        /\ integrated_result.diagnosis = NoCorrelationLabel
        /\ integrated_result.correlation_notes = <<NoCorrelationNote>>

(***************************************************************************)
(* C14 amended: when none of the three correlation rules matches, the      *)
(* label is the no-correlation sentinel; the correlation notes are exactly *)
(* the single sentinel note when the temperature set adds no finding, and  *)
(* otherwise they are exactly the temperature findings, in the order pump  *)
(* DE-NDE difference, motor hotter than pump, critical override, without   *)
(* the sentinel note.                                                      *)
(***************************************************************************)
C14_SentinelUnlessTemperatureFindings ==
    (AggDone /\ Len(MatchingRules) = 0) =>
        /\ integrated_result.diagnosis = NoCorrelationLabel
        /\ integrated_result.correlation_notes =
               IF TemperatureFindings = <<>> THEN <<NoCorrelationNote>>
               ELSE TemperatureFindings

\* no rule matches and the pump bearings are 20 C apart: the notes hold the
\* temperature finding and not the sentinel
C14_Witness ==
    /\ AggDone /\ Len(MatchingRules) = 0
    /\ Truthy(temp_data)
    /\ DOMAIN temp_data.d = TempLocs
    /\ temp_data.d["Pump_DE"] = 85 /\ temp_data.d["Pump_NDE"] = BaseTemp
    /\ Len(integrated_result.correlation_notes) = 1
    /\ ~InSeq(NoCorrelationNote, integrated_result.correlation_notes)

(***************************************************************************)
(* Report generator.  A dict is a function over the keys it holds; the     *)
(* report is the sequence of its lines, a line being its fixed text and    *)
(* the values formatted into it.  The title, timestamp and RPM lines carry *)
(* machine_id, timestamp and rpm, which are not part of the model.         *)
(***************************************************************************)
EmptyDict == [k \in {} |-> 0]
\* d.get(k, default)
DictGet(d, k, default) == IF k \in DOMAIN d THEN d[k] ELSE default
\* `if d.get(k):` for a dict-valued or list-valued entry
HasEntries(d, k) == k \in DOMAIN d /\ DOMAIN d[k] # {}

NA == [na |-> TRUE]
\* f"{v}" and f"{v:.nf}"
Shown(v) == [na |-> FALSE, v |-> v]
Fixed(v, n) == [na |-> FALSE, v |-> v, decimals |-> n]
\* f"{d.get(k, 'N/A')}" and f"{d.get(k, 0):.nf}"
ShownOrNA(d, k) == IF k \in DOMAIN d THEN Shown(d[k]) ELSE NA
FixedOr0(d, k, n) == Fixed(DictGet(d, k, 0), n)
ShownOr0(d, k) == Shown(DictGet(d, k, 0))

Line(text, vals) == [text |-> text, vals |-> vals]
BlankLine == Line("", <<>>)

HeaderLines ==
    << Line("MULTI-DOMAIN PUMP DIAGNOSTIC REPORT - ", <<>>), Line("Generated: ", <<>>),
       Line("RPM: ", <<>>), Line("Standards: ", <<>>), BlankLine >>

TemperatureLines(td) ==
    IF ~Truthy(td) THEN <<>>
    ELSE LET d == td.d
         IN << Line("=== BEARING TEMPERATURE ===", <<>>),
               Line("Pump_DE: | Pump_NDE: ",
                    <<ShownOrNA(d, "Pump_DE"), ShownOrNA(d, "Pump_NDE")>>),
               Line("Motor_DE: | Motor_NDE: ",
                    <<ShownOrNA(d, "Motor_DE"), ShownOrNA(d, "Motor_NDE")>>) >>
            \o (IF TempPresent(d, "Pump_DE") /\ TempPresent(d, "Pump_NDE")
                THEN <<Line("Pump dT (DE-NDE): ",
                            <<Fixed(Abs(d["Pump_DE"] - d["Pump_NDE"]), 1)>>)>>
                ELSE <<>>)
            \o (IF TempPresent(d, "Motor_DE") /\ TempPresent(d, "Motor_NDE")
                THEN <<Line("Motor dT (DE-NDE): ",
                            <<Fixed(Abs(d["Motor_DE"] - d["Motor_NDE"]), 1)>>)>>
                ELSE <<>>)
            \o <<BlankLine>>

\* velocities in 0.1 mm/s
ZoneStatus(vel) ==
    IF vel > 71 THEN "Zone_D"
    ELSE IF vel > 45 THEN "Zone_C"
    ELSE IF vel > 28 THEN "Zone_B"
    ELSE "Zone_A"

PointLine(point, data) ==
    LET vel == DictGet(data, "velocity", 0)
        bands == DictGet(data, "bands", EmptyDict)
    IN Line("POINT_ROW",
            <<Shown(point), Fixed(vel, 2), FixedOr0(bands, "Band1", 3),
              FixedOr0(bands, "Band2", 3), FixedOr0(bands, "Band3", 3),
              Shown(ZoneStatus(vel))>>)

MechanicalLines(md) ==
    <<Line("=== MECHANICAL VIBRATION ===", <<>>)>>
    \o (IF HasEntries(md, "points")
        THEN LET held == SelectSeq(points, LAMBDA p : p \in DOMAIN md.points)
             IN <<Line("POINT,Overall_Vel(mm/s),Band1(g),Band2(g),Band3(g),Status", <<>>)>>
                \o [i \in 1..Len(held) |-> PointLine(held[i], md.points[held[i]])]
                \o << Line("System Diagnosis: ", <<ShownOrNA(md, "system_diagnosis")>>),
                      Line("Champion Point: ", <<ShownOrNA(md, "champion_point")>>) >>
        ELSE <<>>)
    \o <<BlankLine>>

HydraulicLines(hd) ==
    <<Line("=== HYDRAULIC PERFORMANCE ===", <<>>)>>
    \o (IF HasEntries(hd, "measurements")
        THEN LET m == hd.measurements
             IN << Line("Fluid: | SG: ", <<ShownOrNA(hd, "fluid_type"), ShownOrNA(hd, "sg")>>),
                   Line("Suction: bar | Discharge: bar",
                        <<FixedOr0(m, "suction_pressure", 2),
                          FixedOr0(m, "discharge_pressure", 2)>>),
                   Line("Flow: m3/h | Power: kW",
                        <<FixedOr0(m, "flow_rate", 1), FixedOr0(m, "motor_power", 1)>>),
                   Line("Calculated Head: m | Efficiency: %",
                        <<FixedOr0(hd, "head_m", 1), FixedOr0(hd, "efficiency_percent", 1)>>),
                   Line("NPSH Margin: m", <<FixedOr0(hd, "npsh_margin_m", 2)>>),
                   Line("Diagnosis: | Confidence: % | Severity: ",
                        <<ShownOrNA(hd, "diagnosis"), ShownOr0(hd, "confidence"),
                          ShownOrNA(hd, "severity")>>) >>
        ELSE <<>>)
    \o <<BlankLine>>

ElectricalLines(ed) ==
    <<Line("=== ELECTRICAL CONDITION ===", <<>>)>>
    \o (IF HasEntries(ed, "measurements")
        THEN LET e == ed.measurements
             IN << Line("Voltage L1-L2: V | L2-L3: V | L3-L1: V",
                        <<FixedOr0(e, "v_l1l2", 1), FixedOr0(e, "v_l2l3", 1),
                          FixedOr0(e, "v_l3l1", 1)>>),
                   Line("Current L1: A | L2: A | L3: A",
                        <<FixedOr0(e, "i_l1", 1), FixedOr0(e, "i_l2", 1),
                          FixedOr0(e, "i_l3", 1)>>),
                   Line("Voltage Unbalance: % | Current Unbalance: %",
                        <<FixedOr0(ed, "voltage_unbalance", 2),
                          FixedOr0(ed, "current_unbalance", 2)>>),
                   Line("Load Estimate: %", <<FixedOr0(ed, "load_estimate", 1)>>),
                   Line("Diagnosis: | Confidence: % | Severity: ",
                        <<ShownOrNA(ed, "diagnosis"), ShownOr0(ed, "confidence"),
                          ShownOrNA(ed, "severity")>>) >>
        ELSE <<>>)
    \o <<BlankLine>>

IntegratedLines(ir) ==
    << Line("=== INTEGRATED DIAGNOSIS ===", <<>>),
       Line("Overall Diagnosis: ", <<ShownOrNA(ir, "diagnosis")>>),
       Line("Overall Confidence: %", <<ShownOr0(ir, "confidence")>>),
       Line("Overall Severity: ", <<ShownOrNA(ir, "severity")>>),
       Line("Correlation Notes: ", <<Shown(DictGet(ir, "correlation_notes", <<>>))>>) >>
    \o (IF HasEntries(ir, "temperature_notes")
        THEN <<Line("Temperature Notes: ", <<Shown(ir.temperature_notes)>>)>>
        ELSE <<>>)
    \o <<BlankLine>>

generate_unified_csv_report(md, hd, ed, ir, td) ==
    HeaderLines \o TemperatureLines(td) \o MechanicalLines(md)
    \o HydraulicLines(hd) \o ElectricalLines(ed) \o IntegratedLines(ir)

(***************************************************************************)
(* SpecSession: the Streamlit session.  Every interaction reruns main():   *)
(* the handler of the clicked button stores its results, and the           *)
(* integrated tab of the same run recomputes integrated_result when all    *)
(* three domain results are in the session.  An absent session key is      *)
(* Absent (NoTemp for temp_data).  csv_report is a local variable of the   *)
(* run in which the export button was clicked: the next run does not have  *)
(* it.                                                                     *)
(***************************************************************************)
SessVelMaps ==
    { [p \in PointSet |-> BaseVel],
      [p \in PointSet |-> IF p = Point("Pump", "DE", "Horizontal") THEN 72 ELSE BaseVel],
      [p \in PointSet |-> IF p = Point("Pump", "DE", "Axial") THEN 72 ELSE BaseVel] }
SessBandMaps == { [p \in PointSet |-> BaseBands] }
\* the four temperature widgets always fill the four keys
SessTemps ==
    { TempDict([Pump_DE |-> t, Pump_NDE |-> 63, Motor_DE |-> 68, Motor_NDE |-> 66]) :
        t \in {0, BaseTemp, 95} }
\* nameplate data complete, so that no value is auto-estimated; suction below
\* discharge, as the run button requires
SessHydInputs ==
    { HydInput(Frac(44, 100), Frac(373, 100), FInt(100), FInt(15), Frac(84, 100),
               FInt(rh), FInt(bep), FInt(100), Frac(173, 10), Diesel, no) :
        rh \in {40, 50}, bep \in {61, 70}, no \in {"Normal", "Crackling"} }
SessElecInputs ==
    { [v |-> v, i |-> i, rated_voltage |-> 400, fla |-> fla] :
        v \in { <<400, 402, 398>>, <<390, 400, 410>> },
        i \in { <<82, 84, 83>>, <<60, 80, 100>> }, fla \in {70, 85} }

InitSession ==
    /\ mech_result = Absent /\ hyd_result = Absent /\ elec_result = Absent
    /\ temp_data = NoTemp /\ integrated_result = Absent
    /\ MechInputsIdle /\ BearingIdle /\ ElecIdle /\ HydIdle /\ ReportIdle /\ AdjIdle /\ PeakIdle

\* as IntegratedTab, but a stored integrated result is kept as it is
IntegratedTabKeepsStored(m, h, e, td) ==
    IF IsResult(m) /\ IsResult(h) /\ IsResult(e) /\ integrated_result = Absent
    THEN aggregate_cross_domain_diagnosis(m, h, e, td)
    ELSE integrated_result

\* lines 1282-1316: the value of integrated_result after the integrated tab
\* has run on the session holding m, h, e and td
IntegratedTab(m, h, e, td) ==
    IF IsResult(m) /\ IsResult(h) /\ IsResult(e)
    THEN aggregate_cross_domain_diagnosis(m, h, e, td)
    ELSE integrated_result

\* as ExportEnabled, the export section shown as soon as one analysis is done
ExportEnabledAnyResult(m, h, e) == IsResult(m) \/ IsResult(h) \/ IsResult(e)

\* the export button is inside the branch taken when analyses_complete holds
ExportEnabled(m, h, e) == IsResult(m) /\ IsResult(h) /\ IsResult(e)

\* st.session_state.get(key, {})
SessionGet(v) == IF v = Absent THEN EmptyDict ELSE v

RunMechanical ==
    \E vel \in SessVelMaps, bmap \in SessBandMaps, fft \in FftLists,
       r \in OperatingRpm, td \in SessTemps :
        \E mech_system \in {diagnose_mechanical_system(vel, bmap, fft, RpmHz(r))} :
           /\ mech_result' = mech_system
           /\ mech_data' = [points |-> [p \in PointSet |->
                                          [velocity |-> vel[p], bands |-> bmap[p]]],
                            system_diagnosis |-> mech_system.diagnosis,
                            champion_point |-> mech_system.champion_point]
           /\ temp_data' = td
           /\ integrated_result' = IntegratedTab(mech_system, hyd_result, elec_result, td)
           /\ csv_report' = Absent
           /\ UNCHANGED <<hyd_result, elec_result, hyd_data, elec_data,
                          mechInputs, bearingVars, elecVars, hydVars, adjVars, fft_amps>>

\* estimation_note is stored too; the report does not read it
RunHydraulic ==
    \E in \in SessHydInputs :
        \E calc \in {calculate_hydraulic_parameters(
                        in.suction_pressure, in.discharge_pressure, in.flow_rate,
                        in.motor_power, in.sg)} :
        \E res \in {diagnose_hydraulic_single_point(
                       calc, in.design_params, in.fluid_props, in.observations, in.context)} :
           /\ FLt(in.suction_pressure, in.discharge_pressure)
           /\ hyd_result' = res
           /\ hyd_data' = [measurements |->
                               [suction_pressure |-> in.suction_pressure,
                                discharge_pressure |-> in.discharge_pressure,
                                flow_rate |-> in.flow_rate,
                                motor_power |-> in.motor_power],
                           fluid_type |-> "Diesel / Solar", sg |-> in.sg,
                           head_m |-> calc.head_m,
                           efficiency_percent |-> calc.efficiency_percent,
                           npsh_margin_m |-> res.npsh_margin_m,
                           diagnosis |-> res.diagnosis, confidence |-> res.confidence,
                           severity |-> res.severity]
           /\ integrated_result' = IntegratedTab(mech_result, res, elec_result, temp_data)
           /\ csv_report' = Absent
           /\ UNCHANGED <<mech_result, elec_result, temp_data, mech_data, elec_data,
                          mechInputs, bearingVars, elecVars, hydVars, adjVars, fft_amps>>

RunElectrical ==
    \E in \in SessElecInputs :
        \E calc \in {calculate_electrical_parameters(
                        in.v[1], in.v[2], in.v[3], in.i[1], in.i[2], in.i[3],
                        in.rated_voltage, in.fla)} :
        \E res \in {diagnose_electrical_condition(calc, in.rated_voltage)} :
           /\ elec_result' = res
           /\ elec_data' = [measurements |->
                                [v_l1l2 |-> in.v[1], v_l2l3 |-> in.v[2], v_l3l1 |-> in.v[3],
                                 i_l1 |-> in.i[1], i_l2 |-> in.i[2], i_l3 |-> in.i[3]],
                            voltage_unbalance |-> calc.voltage_unbalance_percent,
                            current_unbalance |-> calc.current_unbalance_percent,
                            load_estimate |-> calc.load_estimate_percent,
                            diagnosis |-> res.diagnosis, confidence |-> res.confidence,
                            severity |-> res.severity]
           /\ integrated_result' = IntegratedTab(mech_result, hyd_result, res, temp_data)
           /\ csv_report' = Absent
           /\ UNCHANGED <<mech_result, hyd_result, temp_data, mech_data, hyd_data,
                          mechInputs, bearingVars, elecVars, hydVars, adjVars, fft_amps>>

\* the export button's run: the integrated tab has recomputed integrated_result
\* before the report is generated from it
ExportReport ==
    /\ ExportEnabled(mech_result, hyd_result, elec_result)
    /\ integrated_result' = IntegratedTab(mech_result, hyd_result, elec_result, temp_data)
    /\ csv_report' = generate_unified_csv_report(
                         SessionGet(mech_data), SessionGet(hyd_data), SessionGet(elec_data),
                         integrated_result', temp_data)
    /\ UNCHANGED <<mech_result, hyd_result, elec_result, temp_data,
                   mech_data, hyd_data, elec_data,
                   mechInputs, bearingVars, elecVars, hydVars, adjVars, fft_amps>>

NextSession == RunMechanical \/ RunHydraulic \/ RunElectrical \/ ExportReport

SpecSession == InitSession /\ [][NextSession]_vars

(***************************************************************************)
(* C15: for every order and repetition of the three analysis actions, in   *)
(* every reachable session state integrated_result present implies        *)
(* mech_result, hyd_result and elec_result all present, and a report has   *)
(* been exported only from such a state.                                   *)
(***************************************************************************)
C15_IntegratedOnlyWhenComplete ==
    LET complete == IsResult(mech_result) /\ IsResult(hyd_result) /\ IsResult(elec_result)
    IN /\ integrated_result # Absent => complete
       /\ csv_report # Absent => (complete /\ integrated_result # Absent)

\* a report exported from a session holding all three results
C15_Witness ==
    /\ IsResult(mech_result) /\ IsResult(hyd_result) /\ IsResult(elec_result)
    /\ integrated_result # Absent
    /\ csv_report # Absent

\* no bearing rule of the claim holds of the band record (bands in 0.001 g)
NoBearingRule(bands) ==
    /\ ~(bands.Band1 * 10 > 25 * 200 /\ bands.Band2 * 10 > 15 * 150)
    /\ ~(bands.Band2 > 2 * 150 /\ bands.Band3 * 10 > 15 * 100)
    /\ ~(bands.Band3 > 2 * 100)

PeakAt1x ==
    LET near == { i \in 1..Len(fft_champ_data) :
                    20 * Abs(fft_champ_data[i][1] - RpmHz(rpm)) < RpmHz(rpm) }
    IN IF near = {} THEN 0
       ELSE fft_champ_data[CHOOSE i \in near : \A j \in near : i <= j][2]

AllPeakAmps ==
    LET f[i \in 0..Len(fft_champ_data)] ==
            IF i = 0 THEN 0 ELSE f[i-1] + fft_champ_data[i][2]
    IN f[Len(fft_champ_data)]

\* the Horizontal point at the other end of the champion's machine
OppositeHorizontal(c) ==
    Point(c.machine, IF c.end = "DE" THEN "NDE" ELSE "DE", "Horizontal")

(***************************************************************************)
(* C17: if the champion is a Horizontal point above 7.1 mm/s and either    *)
(* the 1x RPM peak exceeds 0.7 times the sum of all supplied peak          *)
(* amplitudes or the opposite-end Horizontal point of the same machine     *)
(* exceeds 4.5 mm/s, the result is UNBALANCE with severity High, whatever  *)
(* the band data are.                                                      *)
(***************************************************************************)
C17_UnbalanceHigh ==
    MechDone =>
        LET c == Champion(vel_data)
        IN (/\ c.direction = "Horizontal"
            /\ vel_data[c] > 71
            /\ \/ 10 * PeakAt1x > 7 * AllPeakAmps
               \/ vel_data[OppositeHorizontal(c)] > 45)
           => /\ mech_result.diagnosis = "UNBALANCE"
              /\ mech_result.severity = "High"
              /\ mech_result.champion_point = c

\* a dominant 1x peak alone (opposite end at 1.0 mm/s) and a severe bearing
\* band pattern on another point: the result is still UNBALANCE
C17_Witness ==
    /\ MechDone
    /\ Champion(vel_data) = Point("Pump", "DE", "Horizontal")
    /\ vel_data[Point("Pump", "DE", "Horizontal")] = 72
    /\ vel_data[Point("Pump", "NDE", "Horizontal")] = BaseVel
    /\ 10 * PeakAt1x > 7 * AllPeakAmps
    /\ bands_data[Point("Pump", "DE", "Vertical")] = Bands(800, 350, 100)
    /\ mech_result.diagnosis = "UNBALANCE"

\* the precondition of Scenario D on the measurements of the state: average
\* voltage within 90..110 % of rated, voltage unbalance <= 1 %, current
\* unbalance <= 5 %
ScenarioD ==
    LET vsum == elec_in.v[1] + elec_in.v[2] + elec_in.v[3]
        rated == elec_in.rated_voltage
    IN /\ 100 * vsum >= 90 * 3 * rated
       /\ 100 * vsum <= 110 * 3 * rated
       /\ FLe(elec_calc.voltage_unbalance_percent, FInt(1))
       /\ FLe(elec_calc.current_unbalance_percent, FInt(5))

(***************************************************************************)
(* C18 as stated: with the average voltage within tolerance, voltage       *)
(* unbalance <= 1 % and current unbalance <= 5 %, the diagnosis is         *)
(* NORMAL_ELECTRICAL unless the load exceeds 100 % of FLA, for every FLA.  *)
(***************************************************************************)
C18_NormalUnlessOverLoad ==
    (elec_result # Absent /\ ScenarioD
        /\ FLe(elec_calc.load_estimate_percent, FInt(100)))
        => elec_result.diagnosis = "NORMAL_ELECTRICAL"

(***************************************************************************)
(* C18 amended: under the same precondition the diagnosis is               *)
(* NORMAL_ELECTRICAL whenever the load estimate is between 50 % and 100 %  *)
(* of FLA inclusive; when the load estimate is below 50 % (which includes  *)
(* FLA = 0, where it is 0) and the calculator reports the voltage within   *)
(* tolerance, the diagnosis is UNDER_LOAD with severity Low and            *)
(* confidence 50.                                                          *)
(***************************************************************************)
C18_NormalBetweenHalfAndFullLoad ==
    (elec_result # Absent /\ ScenarioD) =>
        LET load == elec_calc.load_estimate_percent
        IN /\ (FLe(FInt(50), load) /\ FLe(load, FInt(100)))
                 => /\ elec_result.diagnosis = "NORMAL_ELECTRICAL"
                    /\ elec_result.severity = "Low"
           /\ (FLt(load, FInt(50)) /\ elec_calc.voltage_within_tolerance)
                 => /\ elec_result.diagnosis = "UNDER_LOAD"
                    /\ elec_result.severity = "Low"
                    /\ elec_result.confidence = 50

\* 400/402/398 V and 82/84/83 A on a 200 A motor: 41.5 % load, UNDER_LOAD
C18_Witness ==
    /\ elec_result # Absent /\ ScenarioD
    /\ elec_in.v = <<400, 402, 398>> /\ elec_in.i = <<82, 84, 83>>
    /\ elec_in.rated_voltage = 400 /\ elec_in.fla = 200
    /\ elec_result.diagnosis = "UNDER_LOAD"

(***************************************************************************)
(* The calculator on doubles.  The code computes in IEEE 754 binary64;     *)
(* the operators below reproduce its results bit for bit for               *)
(* integer-valued measurements (the fractions used elsewhere are the exact *)
(* values, from which the doubles differ in the last bits).  A natural number below 2^58 is a pair of *)
(* limbs [hi, lo] with lo < 2^27; a double is [m, e] with value m * 2^e,   *)
(* m a 53-bit natural (2^52 <= m < 2^53), or DZero.                        *)
(* An intermediate result that is used more than once is bound by a        *)
(* quantifier over a singleton, The({ ... x ... : x \in {e}}), so that it   *)
(* is computed once, as the code computes it once and keeps it in a local. *)
(***************************************************************************)
Limb == 2^27
The(S) == CHOOSE x \in S : TRUE
Big(hi, lo) == [hi |-> hi, lo |-> lo]
BigOf(n) == Big(n \div Limb, n % Limb)
BigZero == Big(0, 0)
BigLt(a, b) == a.hi < b.hi \/ (a.hi = b.hi /\ a.lo < b.lo)
BigAdd(a, b) == Big(a.hi + b.hi + (a.lo + b.lo) \div Limb, (a.lo + b.lo) % Limb)
\* a - b for a >= b
BigSub(a, b) ==
    IF a.lo >= b.lo THEN Big(a.hi - b.hi, a.lo - b.lo)
    ELSE Big(a.hi - b.hi - 1, a.lo + Limb - b.lo)
BigAbsDiff(a, b) == IF BigLt(a, b) THEN BigSub(b, a) ELSE BigSub(a, b)
BigDouble(a) == BigAdd(a, a)
BigHalf(a) == Big(a.hi \div 2, (a.hi % 2) * (Limb \div 2) + a.lo \div 2)
BigOdd(a) == a.lo % 2 = 1
\* bit j (0 the least significant) of a
BigBit(a, j) == IF j < 27 THEN (a.lo \div 2^j) % 2 ELSE (a.hi \div 2^(j - 27)) % 2
\* the number of bits of n < 2^31, and of a
BitLen(n) == CHOOSE k \in 0..31 : (k = 31 \/ n < 2^k) /\ (k = 0 \/ 2^(k - 1) <= n)
BigLen(a) == IF a.hi > 0 THEN 27 + BitLen(a.hi) ELSE BitLen(a.lo)
\* a mod 2^j # 0
BigLowBitsSet(a, j) ==
    IF j <= 0 THEN FALSE
    ELSE IF j >= 27 THEN a.lo # 0 \/ (a.hi % 2^(j - 27)) # 0
    ELSE a.lo % 2^j # 0
RECURSIVE BigShl(_, _)
BigShl(a, k) == IF k = 0 THEN a ELSE The({BigShl(d, k - 1) : d \in {BigDouble(a)}})

RECURSIVE BigShr(_, _)
BigShr(a, k) == IF k = 0 THEN a ELSE The({BigShr(h, k - 1) : h \in {BigHalf(a)}})

Two52 == Big(2^25, 0)
Two53 == Big(2^26, 0)
DZero == [m |-> BigZero, e |-> 0]

\* one step of the long division of p (lp bits) by q: the next bit of p is
\* brought down into the remainder r, the quotient bit is appended to m once
\* the first 1 bit has come (got counts the bits of m)
DivStep(p, lp, q, st) ==
    LET i == st.i + 1
        bit_in == IF i <= lp THEN BigBit(p, lp - i) ELSE 0
        r2 == BigAdd(BigDouble(st.r), Big(0, bit_in))
        qb == ~BigLt(r2, q)
        lead == st.got = 0 /\ ~qb
    IN [i |-> i,
        r |-> IF qb THEN BigSub(r2, q) ELSE r2,
        m |-> IF lead THEN st.m
              ELSE BigAdd(BigDouble(st.m), Big(0, IF qb THEN 1 ELSE 0)),
        got |-> IF lead THEN 0 ELSE st.got + 1]

\* the division stops at 54 quotient bits from the first 1 bit on: 53 bits of
\* mantissa and the round bit
DivStep1(p, lp, q, st) == IF st.got = 54 THEN st ELSE DivStep(p, lp, q, st)
\* n steps, n a power of 2
RECURSIVE DivSteps(_, _, _, _, _)
DivSteps(p, lp, q, st, n) ==
    IF n = 1 THEN DivStep1(p, lp, q, st)
    ELSE The({DivSteps(p, lp, q, s, n \div 2) : s \in {DivSteps(p, lp, q, st, n \div 2)}})
\* at most lp - 1 quotient bits are 0 before the first 1 bit (p, q < 2^58), so
\* 128 steps reach the 54 bits
DivBits(p, lp, q, st) == DivSteps(p, lp, q, st, 128)

\* p / q rounded to nearest, ties to even, times 2^e0
DRoundBits(p, lp, d, e0) ==
    LET sticky == d.r # BigZero \/ BigLowBitsSet(p, lp - d.i)
        m0 == BigHalf(d.m)
        up == BigOdd(d.m) /\ (sticky \/ BigOdd(m0))
        m1 == IF up THEN BigAdd(m0, Big(0, 1)) ELSE m0
        e1 == lp - d.i + 1 + e0
    IN IF m1 = Two53 THEN [m |-> Two52, e |-> e1 + 1] ELSE [m |-> m1, e |-> e1]

DRoundDivOf(p, lp, q, e0) ==
    The({DRoundBits(p, lp, d, e0) :
            d \in {DivBits(p, lp, q, [i |-> 0, r |-> BigZero, m |-> BigZero, got |-> 0])}})

DRoundDiv(p, q, e0) ==
    The({IF a = BigZero THEN DZero
         ELSE The({DRoundDivOf(a, lp, b, e) : lp \in {BigLen(a)}}) :
            a \in {p}, b \in {q}, e \in {e0}})

One == Big(0, 1)
DFromInt(n) == DRoundDiv(BigOf(n), One, 0)
\* x / y and x * 100 on doubles
DDiv(x, y) ==
    The({IF a = DZero THEN DZero ELSE DRoundDiv(a.m, b.m, a.e - b.e) : a \in {x}, b \in {y}})
BigTimes25(a) ==
    LET a8 == BigDouble(BigDouble(BigDouble(a)))
    IN BigAdd(a, BigAdd(a8, BigDouble(a8)))
DTimes100(x) ==
    The({IF a = DZero THEN DZero ELSE DRoundDiv(BigTimes25(a.m), One, a.e + 2) : a \in {x}})
\* |n - x| for the integer n and the double x > 0 with n < 32 x: the exact
\* difference has at most 53 bits at the exponent of x, so it is not rounded
DAbsDiffOf(n, dn, x) ==
    LET nb == IF n = 0 THEN BigZero
              ELSE IF dn.e >= x.e THEN BigShl(dn.m, dn.e - x.e)
              ELSE BigShr(dn.m, x.e - dn.e)
    IN DRoundDiv(BigAbsDiff(nb, x.m), One, x.e)
DAbsDiffInt(n, x) == The({DAbsDiffOf(n, dn, a) : dn \in {DFromInt(n)}, a \in {x}})
DLt(x, y) ==
    IF x = DZero THEN y # DZero
    ELSE IF y = DZero THEN FALSE
    ELSE x.e < y.e \/ (x.e = y.e /\ BigLt(x.m, y.m))
DMax(x, y) == The({IF DLt(a, b) THEN b ELSE a : a \in {x}, b \in {y}})

\* max(|v - avg|) / avg * 100 if avg > 0 else 0, on doubles
UnbalanceOfAverage(a, b, c, avg) ==
    IF avg = DZero THEN DZero
    ELSE LET dev == DMax(DAbsDiffInt(a, avg),
                         DMax(DAbsDiffInt(b, avg), DAbsDiffInt(c, avg)))
         IN DTimes100(DDiv(dev, avg))
UnbalancePercentDouble(a, b, c) ==
    The({UnbalanceOfAverage(a, b, c, avg) : avg \in {DRoundDiv(BigOf(a + b + c), BigOf(3), 0)}})
DLe(x, y) == ~DLt(y, x)

\* calculate_electrical_parameters on doubles, for integer-valued measurements
CalculateElectricalDouble(v_l1l2, v_l2l3, v_l3l1, i_l1, i_l2, i_l3, rated_voltage, fla) ==
    LET v_avg == DRoundDiv(BigOf(v_l1l2 + v_l2l3 + v_l3l1), BigOf(3), 0)
        i_avg == DRoundDiv(BigOf(i_l1 + i_l2 + i_l3), BigOf(3), 0)
        v_percent == DTimes100(DDiv(v_avg, DFromInt(rated_voltage)))
    IN IF rated_voltage = 0 THEN [error |-> "ZeroDivisionError"]
       ELSE [error |-> "none",
             v_avg |-> v_avg,
             i_avg |-> i_avg,
             voltage_unbalance_percent |-> UnbalancePercentDouble(v_l1l2, v_l2l3, v_l3l1),
             current_unbalance_percent |-> UnbalancePercentDouble(i_l1, i_l2, i_l3),
             load_estimate_percent |-> IF fla > 0
                                       THEN DTimes100(DDiv(i_avg, DFromInt(fla)))
                                       ELSE DZero,
             voltage_within_tolerance |-> /\ DLe(DFromInt(90), v_percent)
                                          /\ DLe(v_percent, DFromInt(110))]

(***************************************************************************)
(* SpecScale: the calculator called on a set of measurements, and called   *)
(* again after all six phase values were multiplied by the same factor     *)
(***************************************************************************)
ScaleVolts == { <<400, 402, 398>>, <<395, 395, 396>>, <<396, 400, 404>>, <<380, 400, 410>> }
ScaleAmps == { <<82, 84, 83>>, <<62, 66, 72>>, <<95, 100, 105>>, <<40, 41, 42>>, <<0, 0, 0>> }
ScaleFactors == {2, 3, 5}

InitScale ==
    /\ elec_in \in { [v |-> v, i |-> i, rated_voltage |-> 400, fla |-> 85, factor |-> 1] :
                       v \in ScaleVolts, i \in ScaleAmps }
    /\ elec_calc = Absent
    /\ elec_result = Absent
    /\ OthersIdleForElec

CalculateOnDoubles ==
    /\ elec_calc = Absent
    /\ elec_calc' = CalculateElectricalDouble(
                        elec_in.v[1], elec_in.v[2], elec_in.v[3],
                        elec_in.i[1], elec_in.i[2], elec_in.i[3],
                        elec_in.rated_voltage, elec_in.fla)
    /\ UNCHANGED <<elec_in, elec_result, mech_result, hyd_result, temp_data,
                   integrated_result, mechInputs, bearingVars, hydVars,
                   reportVars, adjVars, fft_amps>>

\* new measurements, every phase value the factor times the former one
ScaleMeasurements ==
    /\ elec_calc # Absent
    /\ elec_in.factor = 1
    /\ \E k \in ScaleFactors :
          elec_in' = [elec_in EXCEPT !.v = <<k * @[1], k * @[2], k * @[3]>>,
                                     !.i = <<k * @[1], k * @[2], k * @[3]>>,
                                     !.factor = k]
    /\ elec_calc' = Absent
    /\ UNCHANGED <<elec_result, mech_result, hyd_result, temp_data,
                   integrated_result, mechInputs, bearingVars, hydVars,
                   reportVars, adjVars, fft_amps>>

NextScale == CalculateOnDoubles \/ ScaleMeasurements

SpecScale == InitScale /\ [][NextScale]_vars

(***************************************************************************)
(* C20: the voltage and current unbalance percentages the calculator       *)
(* returns are unchanged when all three phase voltages (all three phase    *)
(* currents) are multiplied by the same positive factor: what it returns   *)
(* for the scaled measurements is what it returns for the unscaled ones.   *)
(***************************************************************************)
C20_UnbalanceScaleInvariant ==
    (elec_calc # Absent /\ elec_in.factor # 1) =>
        LET k == elec_in.factor
            v == elec_in.v
            i == elec_in.i
        IN /\ elec_calc.voltage_unbalance_percent =
                  UnbalancePercentDouble(v[1] \div k, v[2] \div k, v[3] \div k)
           /\ elec_calc.current_unbalance_percent =
                  UnbalancePercentDouble(i[1] \div k, i[2] \div k, i[3] \div k)

(***************************************************************************)
(* SpecReport: one call of generate_unified_csv_report on summaries that   *)
(* may be empty or hold only some of their keys                            *)
(***************************************************************************)
ReportPoint == Point("Pump", "DE", "Horizontal")
ReportMechData ==
    { EmptyDict,
      [points |-> EmptyDict, system_diagnosis |-> "Normal"],
      [points |-> (ReportPoint :> EmptyDict)],
      [points |-> (ReportPoint :> [velocity |-> 46, bands |-> [Band1 |-> 200]]),
       system_diagnosis |-> "UNBALANCE"],
      [points |-> [p \in PointSet |-> [velocity |-> BaseVel, bands |-> BaseBands]],
       system_diagnosis |-> "Normal", champion_point |-> NoChampion] }
ReportHydData ==
    { EmptyDict,
      [measurements |-> EmptyDict, diagnosis |-> "NORMAL_OPERATION"],
      [measurements |-> [flow_rate |-> FInt(100)]],
      [measurements |-> [suction_pressure |-> Frac(44, 100),
                         discharge_pressure |-> Frac(373, 100),
                         flow_rate |-> FInt(100), motor_power |-> FInt(15)],
       fluid_type |-> "Diesel / Solar", sg |-> Frac(84, 100), head_m |-> Frac(3995, 100),
       efficiency_percent |-> Frac(6096, 100), npsh_margin_m |-> Frac(47, 100),
       diagnosis |-> "NORMAL_OPERATION", confidence |-> 95, severity |-> "Low"] }
ReportElecData ==
    { EmptyDict,
      [measurements |-> [v_l1l2 |-> 400], severity |-> "Low"],
      [measurements |-> [v_l1l2 |-> 400, v_l2l3 |-> 402, v_l3l1 |-> 398,
                         i_l1 |-> 82, i_l2 |-> 84, i_l3 |-> 83],
       voltage_unbalance |-> Frac(1, 2), current_unbalance |-> Frac(100, 83),
       load_estimate |-> Frac(8300, 85),
       diagnosis |-> "NORMAL_ELECTRICAL", confidence |-> 95, severity |-> "Low"] }
ReportIntegrated ==
    { EmptyDict,
      [diagnosis |-> NoCorrelationLabel, severity |-> "Low"],
      [diagnosis |-> NoCorrelationLabel, confidence |-> 95, severity |-> "Low",
       correlation_notes |-> <<NoCorrelationNote>>, temperature_notes |-> <<>>],
      [diagnosis |-> NoCorrelationLabel, confidence |-> 90, severity |-> "High",
       correlation_notes |-> <<OverrideNote>>,
       temperature_notes |-> <<Note("Critical", "Pump_DE")>>] }
ReportTemps ==
    { NoTemp, TempDict(EmptyDict), TempDict([Pump_DE |-> 70]),
      TempDict([Pump_DE |-> 0, Pump_NDE |-> 0, Motor_DE |-> 0, Motor_NDE |-> 0]),
      TempDict([Pump_DE |-> 95, Pump_NDE |-> 63, Motor_DE |-> 68, Motor_NDE |-> 66]) }

InitReport ==
    /\ mech_data \in ReportMechData
    /\ hyd_data \in ReportHydData
    /\ elec_data \in ReportElecData
    /\ integrated_result \in ReportIntegrated
    /\ temp_data \in ReportTemps
    /\ csv_report = Absent
    /\ mech_result = Absent /\ hyd_result = Absent /\ elec_result = Absent
    /\ MechInputsIdle /\ BearingIdle /\ ElecIdle /\ HydIdle /\ AdjIdle /\ PeakIdle

GenerateReport ==
    /\ csv_report = Absent
    /\ csv_report' = generate_unified_csv_report(
                         mech_data, hyd_data, elec_data, integrated_result, temp_data)
    /\ UNCHANGED <<mech_result, hyd_result, elec_result, temp_data, integrated_result,
                   mech_data, hyd_data, elec_data,
                   mechInputs, bearingVars, elecVars, hydVars, adjVars, fft_amps>>

NextReport == GenerateReport

SpecReport == InitReport /\ [][NextReport]_vars

\* the positions of the report's lines that carry the text
LinesWith(text) == { i \in 1..Len(csv_report) : csv_report[i].text = text }
\* the position of the only line that carries the text, 0 if it is not the only one
TheLine(text) ==
    IF Cardinality(LinesWith(text)) = 1 THEN CHOOSE i \in LinesWith(text) : TRUE ELSE 0
\* the value at pos of every line after line lo that carries the text is N/A
ShowsNA(text, pos, lo) ==
    \A i \in LinesWith(text) : i > lo => csv_report[i].vals[pos] = NA
Lacks(d, k) == k \notin DOMAIN d

(***************************************************************************)
(* C19: the report generator never fails on absent data and emits its      *)
(* sections in one fixed order: the header lines, then the                 *)
(* bearing-temperature block if and only if temperature data is supplied,  *)
(* then the mechanical, hydraulic, electrical and integrated section       *)
(* headers in that order; the four headers are emitted even when the       *)
(* corresponding summary is empty, and a missing optional value is         *)
(* rendered as N/A.                                                        *)
(***************************************************************************)
C19_FixedOrderAndNA ==
    csv_report # Absent =>
        LET temp == TheLine("=== BEARING TEMPERATURE ===")
            mech == TheLine("=== MECHANICAL VIBRATION ===")
            hyd == TheLine("=== HYDRAULIC PERFORMANCE ===")
            elec == TheLine("=== ELECTRICAL CONDITION ===")
            int == TheLine("=== INTEGRATED DIAGNOSIS ===")
            m == DictGet(hyd_data, "measurements", EmptyDict)
            e == DictGet(elec_data, "measurements", EmptyDict)
        IN /\ SubSeq(csv_report, 1, 5) = HeaderLines
           /\ (temp # 0) <=> Truthy(temp_data)
           /\ temp # 0 => temp = 6
           /\ 5 < mech /\ temp < mech /\ mech < hyd /\ hyd < elec /\ elec < int
           /\ Truthy(temp_data) /\ Lacks(temp_data.d, "Pump_NDE")
                 => ShowsNA("Pump_DE: | Pump_NDE: ", 2, temp)
           /\ Lacks(mech_data, "champion_point") => ShowsNA("Champion Point: ", 1, mech)
           /\ Lacks(hyd_data, "fluid_type") => ShowsNA("Fluid: | SG: ", 1, hyd)
           /\ Lacks(m, "suction_pressure") => ShowsNA("Suction: bar | Discharge: bar", 1, hyd)
           /\ Lacks(elec_data, "confidence")
                 => ShowsNA("Diagnosis: | Confidence: % | Severity: ", 2, elec)
           /\ Lacks(e, "i_l1") => ShowsNA("Current L1: A | L2: A | L3: A", 1, elec)
           /\ Lacks(integrated_result, "severity") => ShowsNA("Overall Severity: ", 1, int)
           /\ Lacks(integrated_result, "confidence") => ShowsNA("Overall Confidence: %", 1, int)

\* the band record satisfies the BEARING_SEVERE rule
SevereBands(bands) == 2 * bands.Band1 > 5 * base1 /\ 2 * bands.Band2 > 3 * base2

(***************************************************************************)
(* C21: if at least one point has Band1 > 2.5 x 0.3 g and Band2 > 1.5 x    *)
(* 0.2 g, the bearing loop ends with bearing_diag BEARING_SEVERE and       *)
(* worst_bearing_severity High, wherever that point is in the iteration    *)
(* order and whatever the bands of the other points are.                   *)
(***************************************************************************)
C21_SevereHasPrecedence ==
    (b_idx = Len(points) /\ \E p \in DOMAIN bands_data : SevereBands(bands_data[p])) =>
        /\ bearing.bearing_diag = "BEARING_SEVERE"
        /\ bearing.worst_bearing_severity = "High"

(***************************************************************************)
(* SpecPeak: the two amplitudes the low-frequency path reads from the FFT  *)
(* peaks of the champion point (lines 489-490).  Frequencies in 0.1 Hz,    *)
(* amplitudes in 0.01 mm/s; at 3000 RPM the 1x frequency is 50.0 Hz.       *)
(***************************************************************************)
PeakChoices == { <<478, 30>>, <<495, 100>>, <<520, 60>>, <<1000, 40>>, <<1030, 20>> }
MaxPeaks == 3
\* lists of at most MaxPeaks different peaks, in every order
PeakLists ==
    UNION { { s \in [1..n -> PeakChoices] : \A i, j \in 1..n : i # j => s[i] # s[j] } :
              n \in 0..MaxPeaks }

InitPeak ==
    /\ fft_champ_data \in PeakLists
    /\ rpm \in OperatingRpm
    /\ vel_data = Absent /\ bands_data = Absent
    /\ fft_amps = Absent
    /\ mech_result = Absent
    /\ hyd_result = Absent /\ elec_result = Absent
    /\ temp_data = NoTemp /\ integrated_result = Absent
    /\ BearingIdle /\ ElecIdle /\ HydIdle /\ ReportIdle /\ AdjIdle

ExtractPeaks ==
    /\ fft_amps = Absent
    /\ fft_amps' = [amp_1x |-> FirstPeakNear(1, fft_champ_data, RpmHz(rpm), RpmHz(rpm)),
                    amp_2x |-> FirstPeakNear(1, fft_champ_data, 2 * RpmHz(rpm), RpmHz(rpm))]
    /\ UNCHANGED <<mech_result, hyd_result, elec_result, temp_data, integrated_result,
                   mechInputs, bearingVars, elecVars, hydVars, reportVars, adjVars>>

NextPeak == ExtractPeaks

SpecPeak == InitPeak /\ [][NextPeak]_vars

\* the amplitudes of the peaks of fft nearest to target among those within
\* 5 % of target; {0} when no peak is within 5 % of it
NearestAmps(fft, target) ==
    LET near == { i \in 1..Len(fft) : 20 * Abs(fft[i][1] - target) <= target }
    IN IF near = {} THEN {0}
       ELSE { fft[i][2] : i \in { k \in near : \A j \in near :
                                     Abs(fft[k][1] - target) <= Abs(fft[j][1] - target) } }

(***************************************************************************)
(* C22: the 1x RPM (2x RPM) amplitude is the amplitude of the supplied     *)
(* peak nearest to the target frequency among the peaks within 5 % of it,  *)
(* and 0 when no supplied peak is within 5 % of it; so it does not depend  *)
(* on the order of the list.                                               *)
(***************************************************************************)
C22_NearestPeakAmplitude ==
    fft_amps # Absent =>
        /\ fft_amps.amp_1x \in NearestAmps(fft_champ_data, RpmHz(rpm))
        /\ fft_amps.amp_2x \in NearestAmps(fft_champ_data, 2 * RpmHz(rpm))

\* the percentage deviation the claim gives an actual value from its rated value
ClaimedDeviation(actual, rated) ==
    IF FGt(rated, FInt(0)) THEN FDiv(FMul(FSub(actual, rated), FInt(100)), rated)
    ELSE FInt(0)
ClaimedHeadDev == ClaimedDeviation(hyd_calc.head_m, hyd_in.design_params.rated_head_m)
ClaimedEffDev ==
    ClaimedDeviation(hyd_calc.efficiency_percent, hyd_in.design_params.bep_efficiency)
ClaimedFlowDev == ClaimedDeviation(hyd_in.flow_rate, hyd_in.design_params.rated_flow_m3h)
Within5(d) == FLe(FAbs(d), FInt(5))

\* the pattern the claim's ordered list gives the deviations of the state
ClaimedPattern ==
    IF FLt(ClaimedHeadDev, FInt(-5)) /\ FLt(ClaimedEffDev, FInt(-5)) THEN "UNDER_PERFORMANCE"
    ELSE IF FGt(ClaimedHeadDev, FInt(5)) /\ FLt(ClaimedFlowDev, FInt(-5)) THEN "OVER_RESISTANCE"
    ELSE IF FLt(ClaimedEffDev, FInt(-10)) /\ Within5(ClaimedHeadDev) THEN "EFFICIENCY_DROP"
    ELSE IF Within5(ClaimedHeadDev) /\ Within5(ClaimedEffDev) /\ Within5(ClaimedFlowDev)
    THEN "NORMAL"
    ELSE "MIXED_DEVIATION"

\* the patterns the classifier can have returned for the result r: each pattern
\* returns its own set of deviation keys, and outside CAVITATION the diagnosis
\* tells NORMAL from MIXED_DEVIATION
ReturnedPatterns(r) ==
    LET keys == DOMAIN r.deviations
    IN IF keys = {"head_dev", "eff_dev"} THEN {"UNDER_PERFORMANCE"}
       ELSE IF keys = {"head_dev", "flow_dev"} THEN {"OVER_RESISTANCE"}
       ELSE IF keys = {"eff_dev"} THEN {"EFFICIENCY_DROP"}
       ELSE IF r.diagnosis = "NORMAL_OPERATION" THEN {"NORMAL"}
       ELSE IF r.diagnosis = "Tidak Terdiagnosa" THEN {"MIXED_DEVIATION"}
       ELSE {"NORMAL", "MIXED_DEVIATION"}

(***************************************************************************)
(* C23: classify_hydraulic_performance returns the one pattern that the    *)
(* fixed order gives the percentage deviations: head < -5 and eff < -5 is  *)
(* UNDER_PERFORMANCE; head > 5 and flow < -5 is OVER_RESISTANCE; eff < -10 *)
(* and |head| <= 5 is EFFICIENCY_DROP; all three within 5 is NORMAL;       *)
(* anything else is MIXED_DEVIATION.  The deviations it returns are the    *)
(* percentage deviations, 0 for a rated value that is not positive.        *)
(***************************************************************************)
C23_PatternByFixedOrder ==
    hyd_result # Absent =>
        /\ ClaimedPattern \in ReturnedPatterns(hyd_result)
        /\ \A k \in DOMAIN hyd_result.deviations :
              hyd_result.deviations[k] =
                  IF k = "head_dev" THEN ClaimedHeadDev
                  ELSE IF k = "eff_dev" THEN ClaimedEffDev ELSE ClaimedFlowDev

\* a flow deviation of exactly -5 % with a head 11 % above rated: the second
\* rule does not match, and the result is MIXED_DEVIATION
C23_Witness ==
    /\ hyd_result # Absent
    /\ ClaimedFlowDev = FInt(-5)
    /\ FGt(ClaimedHeadDev, FInt(5))
    /\ hyd_in.design_params.bep_efficiency = FInt(0)
    /\ hyd_result.diagnosis = "Tidak Terdiagnosa"
    /\ DOMAIN hyd_result.deviations = {"head_dev", "eff_dev", "flow_dev"}

\* the integers nearest to the fraction n/k (two of them when n/k is a half)
NearestIntegers(n, k) == { r \in -200..200 : 2 * Abs(k * r - n) <= k }

(***************************************************************************)
(* C24: the integrated confidence is min(95, round(m + b)): m the mean of  *)
(* the domain confidences that are > 0 (0 if none is), b the sum of the    *)
(* bonuses of the matching rules and the temperature adjustment, rounded   *)
(* to the nearest integer and not truncated.                               *)
(***************************************************************************)
C24_ConfidenceRounded ==
    AggDone =>
        LET positive == PositiveConfidences(mech_result, hyd_result, elec_result)
            k == IF Len(positive) = 0 THEN 1 ELSE Len(positive)
            b == MatchingBonus + TemperatureBonus
        IN \E r \in NearestIntegers(SumSeq(positive) + k * b, k) :
              integrated_result.confidence = Min(95, r)

\* the locations of the set whose reading is 0, and the set without them
ZeroLocs(td) == { k \in DOMAIN td.d : td.d[k] = 0 }
MeasuredOnly(td) ==
    IF td.given THEN TempDict(Restrict(td.d, DOMAIN td.d \ ZeroLocs(td))) ELSE td

(***************************************************************************)
(* C25: a bearing temperature of 0 is "not measured" everywhere.  The      *)
(* aggregation is what it is for the set without the locations that read   *)
(* 0 (no confidence delta, no DE/NDE or Motor/Pump comparison, no          *)
(* critical override from them), no temperature note names such a          *)
(* location, and a set of four zeros gives adjustment 0, no temperature    *)
(* notes and the severity of the three domains.                            *)
(***************************************************************************)
C25_ZeroIsNotMeasured ==
    AggDone =>
        /\ integrated_result =
              aggregate_cross_domain_diagnosis(mech_result, hyd_result, elec_result,
                                               MeasuredOnly(temp_data))
        /\ \A i \in 1..Len(integrated_result.temperature_notes) :
              integrated_result.temperature_notes[i].loc \notin ZeroLocs(temp_data)
        /\ temp_data = AllZeroTemps =>
              /\ integrated_result.temperature_notes = <<>>
              /\ integrated_result.confidence =
                    FinalConfidence(mech_result, hyd_result, elec_result, MatchingBonus)
              /\ integrated_result.severity =
                    OverallSeverity(mech_result.severity, hyd_result.severity,
                                    elec_result.severity)
              /\ ~InSeq(OverrideNote, integrated_result.correlation_notes)

\* Pump_DE reads 0 beside a Critical Pump_NDE with a fault diagnosed: the one
\* note and the +20 are those of Pump_NDE, and no DE-NDE difference is reported
C25_Witness ==
    /\ AggDone
    /\ temp_data.given /\ DOMAIN temp_data.d = TempLocs
    /\ temp_data.d["Pump_DE"] = 0 /\ temp_data.d["Pump_NDE"] = 95
    /\ temp_data.d["Motor_DE"] = BaseTemp /\ temp_data.d["Motor_NDE"] = BaseTemp
    /\ mech_result.diagnosis = "MISALIGNMENT"
    /\ Len(integrated_result.temperature_notes) = 1
    /\ integrated_result.temperature_notes[1].loc = "Pump_NDE"
    /\ integrated_result.severity = "High"

(***************************************************************************)
(* C26: every result the three diagnosers produce has an integer           *)
(* confidence in 40..99; so when the aggregator runs on them all three     *)
(* confidences are > 0 and enter the mean, and the integrated confidence   *)
(* is at least 30.                                                         *)
(***************************************************************************)
C26_DiagnoserConfidenceBounds ==
    /\ IsResult(mech_result) => mech_result.confidence \in 40..99
    /\ IsResult(hyd_result) => hyd_result.confidence \in 40..99
    /\ IsResult(elec_result) => elec_result.confidence \in 40..99
    /\ integrated_result # Absent =>
          /\ Len(PositiveConfidences(mech_result, hyd_result, elec_result)) = 3
          /\ integrated_result.confidence >= 30

\* both bounds at once, and the capped unbalance confidence: an undiagnosed
\* hydraulic result (40), a Normal mechanical result (99) that a Critical
\* bearing temperature contradicts (-10, and +5 for the DE-NDE difference),
\* and a current unbalance of 25 %
C26_Witness ==
    /\ integrated_result # Absent
    /\ mech_result.confidence = 99
    /\ hyd_result.confidence = 40
    /\ elec_result.diagnosis = "CURRENT_UNBALANCE" /\ elec_result.confidence = 95
    /\ temp_data.d["Pump_DE"] = 95
    /\ integrated_result.confidence = 73

(***************************************************************************)
(* C27: in every result of diagnose_mechanical_system the four fields      *)
(* agree: diagnosis is Normal iff severity is Low iff fault_type is normal *)
(* iff champion_point is the 'none' sentinel; in every other result        *)
(* champion_point is the maximum-velocity point (also when a bearing       *)
(* diagnosis won), fault_type is low_freq or high_freq and severity is     *)
(* Medium or High.                                                         *)
(***************************************************************************)
C27_MechFieldsAgree ==
    (MechDone /\ IsResult(mech_result)) =>
        LET r == mech_result
            normal == r.diagnosis = "Normal"
        IN /\ normal <=> r.severity = "Low"
           /\ normal <=> r.fault_type = "normal"
           /\ normal <=> r.champion_point = NoChampion
           /\ ~normal =>
                 /\ r.champion_point = Champion(vel_data)
                 /\ r.champion_point \in DOMAIN vel_data
                 /\ vel_data[r.champion_point] = MaxVel(vel_data)
                 /\ r.fault_type \in {"low_freq", "high_freq"}
                 /\ r.severity \in {"Medium", "High"}

\* a bearing diagnosis won while every velocity is within the warning
\* limit, and the champion is still the maximum-velocity point
C27_Witness ==
    /\ MechDone
    /\ IsResult(mech_result)
    /\ mech_result.fault_type = "high_freq"
    /\ mech_result.severity = "Medium"
    /\ MaxVel(vel_data) <= 45
    /\ mech_result.champion_point = Champion(vel_data)
    /\ vel_data[mech_result.champion_point] = MaxVel(vel_data)

(***************************************************************************)
(* C28: with a mechanical result produced by diagnose_mechanical_system,   *)
(* whose fault_type is normal, low_freq or high_freq and never wear, the   *)
(* second correlation rule never matches: the integrated result never      *)
(* carries the label 'Cascading Failure: Cavitation Origin' nor the rule's *)
(* note, also when hydraulic cavitation and a current unbalance above 5 %  *)
(* are both present.                                                       *)
(***************************************************************************)
CascadingLabel == "Cascading Failure: Cavitation Origin"
CascadingNote == "Cavitation -> impeller erosion -> unbalance -> current fluctuation"

SeqHas(s, x) == \E i \in 1..Len(s) : s[i] = x

C28_Rule2NeverMatches ==
    /\ IsResult(mech_result) =>
          mech_result.fault_type \in {"normal", "low_freq", "high_freq"}
    /\ integrated_result # Absent =>
          /\ ~Rule2(mech_result, hyd_result, elec_result)
          /\ integrated_result.diagnosis # CascadingLabel
          /\ ~SeqHas(integrated_result.correlation_notes, CascadingNote)

\* cavitation and a current unbalance above 5 % with a mechanical fault, and
\* the aggregator has run on them
C28_Witness ==
    /\ integrated_result # Absent
    /\ hyd_result.fault_type = "cavitation"
    /\ FGt(elec_result.current_unbalance, FInt(5))
    /\ mech_result.fault_type = "low_freq"
    /\ integrated_result.diagnosis = NoCorrelationLabel

(***************************************************************************)
(* C29: for an electrical result produced by diagnose_electrical_condition *)
(* the first rule (fault_type voltage) and the third rule (diagnosis       *)
(* OVER_LOAD) never match together, whatever the other two results are; so *)
(* for results of the three diagnosers at most one correlation rule        *)
(* matches and the rule part of the bonus is 0, 10 or 15.                  *)
(***************************************************************************)
\* partner results that meet every non-electrical condition of rules 1 and 3
PartnerMech == [diagnosis |-> "MISALIGNMENT", fault_type |-> "low_freq"]
PartnerHyd == [fault_type |-> "efficiency", head_dev |-> Frac(-10, 1)]

MatchedRules(mech, hyd, elec) ==
    (IF Rule1(mech, hyd, elec) THEN {1} ELSE {})
    \cup (IF Rule2(mech, hyd, elec) THEN {2} ELSE {})
    \cup (IF Rule3(mech, hyd, elec) THEN {3} ELSE {})

C29_Rule1Rule3Exclusive ==
    /\ IsResult(elec_result) =>
          /\ ~(elec_result.fault_type = "voltage" /\ elec_result.diagnosis = "OVER_LOAD")
          /\ ~(/\ Rule1(PartnerMech, PartnerHyd, elec_result)
               /\ Rule3(PartnerMech, PartnerHyd, elec_result))
    /\ integrated_result # Absent =>
          /\ Cardinality(MatchedRules(mech_result, hyd_result, elec_result)) <= 1
          /\ RuleBonus(mech_result, hyd_result, elec_result) \in {0, 10, 15}

\* rule 1 matched on a voltage unbalance measured at a load above 100 %: the
\* diagnoser reported the voltage fault, not OVER_LOAD
C29_Witness ==
    /\ integrated_result # Absent
    /\ Rule1(mech_result, hyd_result, elec_result)
    /\ FGt(elec_result.load_estimate, FInt(100))
    /\ elec_result.diagnosis = "VOLTAGE_UNBALANCE"
    /\ RuleBonus(mech_result, hyd_result, elec_result) = 15
    /\ integrated_result.diagnosis = "Electrical-Mechanical-Hydraulic Coupled Fault"

(***************************************************************************)
(* C30: mech_result and temp_data are written together by the mechanical   *)
(* analysis action: one is stored iff the other is, and temp_data changes  *)
(* only in a step that stores a mechanical result and leaves the hydraulic *)
(* and electrical results alone; and after every run in which all three    *)
(* domain results are present, integrated_result is the aggregation of the *)
(* stored mech_result, hyd_result, elec_result and temp_data, whatever the *)
(* order in which the three analyses were run.                             *)
(***************************************************************************)
AnalysesComplete == IsResult(mech_result) /\ IsResult(hyd_result) /\ IsResult(elec_result)

C30_SnapshotConsistent ==
    /\ [](IsResult(mech_result) <=> temp_data # NoTemp)
    /\ [][temp_data' # temp_data =>
             /\ IsResult(mech_result')
             /\ mech_data'.system_diagnosis = mech_result'.diagnosis
             /\ UNCHANGED <<hyd_result, elec_result, hyd_data, elec_data>>]_vars
    /\ [][(mech_result' # mech_result \/ mech_data' # mech_data)
             => (temp_data' \in SessTemps /\ UNCHANGED <<hyd_result, elec_result>>)]_vars
    /\ [](AnalysesComplete =>
             integrated_result = aggregate_cross_domain_diagnosis(
                                     mech_result, hyd_result, elec_result, temp_data))

\* the mechanical analysis ran first, on a critical pump DE temperature, and
\* the other two afterwards: all three domains report Low, and the integrated
\* result is High by the override on the stored temperature set
C30_Witness ==
    /\ AnalysesComplete
    /\ temp_data.d.Pump_DE = 95
    /\ mech_result.severity = "Low"
    /\ hyd_result.severity = "Low"
    /\ elec_result.severity = "Low"
    /\ integrated_result.severity = "High"
    /\ SeqHas(integrated_result.correlation_notes, OverrideNote)

====
